---- MODULE Spec2Model ----
(***************************************************************************)
(* Model of the retrieval pipeline of the auditor backend:                 *)
(*   app/modules/rag/policy_gate.py      PolicyGate                        *)
(*   app/modules/rag/enhanced_pipeline.py EnhancedRAGPipeline              *)
(*   app/modules/rag/service.py          RAGService                        *)
(*   app/modules/rag/hybrid_service.py   HybridRAGService                  *)
(* Python lists are sequences, dicts are functions with a finite domain,   *)
(* None is the string "None".                                              *)
(***************************************************************************)
EXTENDS Integers, Sequences, FiniteSets, TLC

VARIABLES
    rate_limit_cache,   \* PolicyGate._rate_limit_cache: user_id -> [count, window_start]
    now,                \* datetime.utcnow(), in whole seconds
    request,            \* arguments of the last PolicyGate.evaluate call
    decision,           \* PolicyDecision returned by the last PolicyGate.evaluate call
    audit_log,          \* the log records the last PolicyGate.evaluate call emitted
    allowed_log,        \* history: time -> number of requests the gate allowed at that time
    ticks,              \* history: number of clock advances so far
    co,                 \* the process_query coroutines in flight on one pipeline
    ready,              \* the event loop's FIFO queue of tasks that have not run yet
    qpc,                \* RAGService.query: the statement the call has reached
    qargs,              \* RAGService.query: its arguments
    policy_result,      \* process_query: PolicyGateResult of _policy_gate
    query_plan,         \* process_query: QueryPlan of _route_and_plan
    evidence_results,   \* process_query: dict returned by _retrieve_evidence
    context_docs,       \* _basic_query: list returned by _search_qdrant_documents
    searches,           \* history: the qdrant_store.search calls of this query, in order
    generations,        \* history: number of generation calls of this query
    outcome,            \* what the caller of query got: none, answer, error
    queries,            \* history: number of query calls so far
    merged_evidence,    \* process_query: list returned by _merge_and_dedupe
    hpc,                \* HybridRAGService.query / evidence_only: the statement reached
    hq,                 \* the HybridRAGQuery and the method called with it
    policy,             \* dict returned by HybridRAGService._policy_gate
    router,             \* dict returned by _route_question
    plan,               \* dict returned by _build_query_plan
    sq,                 \* _retrieve_multi: index of the next sub-query of the loop
    merged,             \* _retrieve_multi: the dict merged, in insertion order
    retrieved,          \* list returned by _retrieve_multi
    hits,               \* history: every normalized hit _retrieve_multi has seen
    hsearches,          \* history: the search calls of _retrieve_multi, in order
    fn,                 \* a function applied on its own: how far its calls have got
    args,               \* a function applied on its own: its arguments
    returns,            \* a function applied on its own: what its calls returned
    stored_files,       \* committed rows of the stored_files table, by file id
    jobs,               \* the index_file_task coroutines of the arq worker
    providers,          \* EmbeddingService.providers, in order of priority
    embedding_cache     \* EmbeddingService._cache: text -> the vector kept for it

gateVars == <<rate_limit_cache, now, request, decision, audit_log>>

windowVars == <<allowed_log, ticks>>

concVars == <<co, ready>>

queryVars == <<qpc, qargs, policy_result, query_plan, evidence_results,
               context_docs, searches, generations, outcome, queries,
               merged_evidence>>

hybridVars == <<hpc, hq, policy, router, plan, sq, merged, retrieved, hits, hsearches>>

unitVars == <<fn, args, returns>>

pipelineVars == <<queryVars, hybridVars, unitVars>>

indexVars == <<stored_files, jobs>>

embedVars == <<providers, embedding_cache>>

vars == <<gateVars, windowVars, concVars, pipelineVars, indexVars, embedVars>>

-----------------------------------------------------------------------------
(* Python values *)

None == "None"

\* Python truthiness of an Optional[str]
Truthy(x) == x /= None /\ x /= ""

Min(a, b) == IF a <= b THEN a ELSE b

Max(a, b) == IF a >= b THEN a ELSE b

\* set of the elements of a list
Elems(s) == {s[i] : i \in 1..Len(s)}

\* x in list
InList(x, s) == x \in Elems(s)

\* list.remove(x): drops the first occurrence of x
RECURSIVE ListRemove(_, _)
ListRemove(s, x) ==
    IF s = <<>> THEN <<>>
    ELSE IF Head(s) = x THEN Tail(s)
    ELSE <<Head(s)>> \o ListRemove(Tail(s), x)

-----------------------------------------------------------------------------
(* FileScope, UserRole *)

ADMIN_LAW == "ADMIN_LAW"

CUSTOMER_DOC == "CUSTOMER_DOC"

ROLE_ADMIN == "admin"

ROLE_EMPLOYEE == "employee"

ROLE_CUSTOMER == "customer"

ROLE_GUEST == "guest"

\* PolicyGate.ROLE_LIMITS; temperature_range is kept in tenths
ROLE_LIMITS(role) ==
    CASE role = ROLE_ADMIN ->
            [max_k |-> 20, max_context_tokens |-> 16000,
             temperature_range |-> <<0, 20>>, rate_limit_per_hour |-> 1000]
      [] role = ROLE_EMPLOYEE ->
            [max_k |-> 15, max_context_tokens |-> 12000,
             temperature_range |-> <<0, 15>>, rate_limit_per_hour |-> 500]
      [] role = ROLE_CUSTOMER ->
            [max_k |-> 10, max_context_tokens |-> 8000,
             temperature_range |-> <<0, 10>>, rate_limit_per_hour |-> 100]
      [] OTHER ->
            [max_k |-> 5, max_context_tokens |-> 4000,
             temperature_range |-> <<3, 7>>, rate_limit_per_hour |-> 10]

\* length of the rate-limit window in seconds
WINDOW_SECONDS == 3600

-----------------------------------------------------------------------------
(* Database rows read by the gate *)

\* rows of the users table: id -> is_admin
UserTable == [admin1 |-> TRUE, emp1 |-> FALSE]

\* an id with no row in the users table
UnknownUser == "ghost"

UserIds == DOMAIN UserTable \cup {UnknownUser}

\* rows of the customers table, in query order: <<id, assigned_employee_id>>
CustomerTable ==
    << <<"C123", None>>, <<"C201", "emp1">>, <<"C202", "emp1">>, <<"C203", "emp1">> >>

CustomerIds == {CustomerTable[i][1] : i \in 1..Len(CustomerTable)}

\* the None that _get_user_info returns for a missing row
NoUser == [id |-> None, role |-> None, is_admin |-> FALSE]

\* PolicyGate._get_user_info
GetUserInfo(user_id) ==
    IF user_id \notin DOMAIN UserTable THEN NoUser
    ELSE [id |-> user_id,
          role |-> IF UserTable[user_id] THEN ROLE_ADMIN ELSE ROLE_EMPLOYEE,
          is_admin |-> UserTable[user_id]]

RECURSIVE AssignedFrom(_, _)
AssignedFrom(rows, user_id) ==
    IF rows = <<>> THEN <<>>
    ELSE (IF Head(rows)[2] = user_id THEN <<Head(rows)[1]>> ELSE <<>>)
         \o AssignedFrom(Tail(rows), user_id)

\* PolicyGate._get_assigned_customers
GetAssignedCustomers(user_id) == AssignedFrom(CustomerTable, user_id)

-----------------------------------------------------------------------------
(* PolicyGate *)

\* PolicyGate._deny
Deny(reason, rate_limit_remaining) ==
    [allowed |-> FALSE,
     allowed_scopes |-> <<>>,
     allowed_customer_ids |-> <<>>,
     max_k |-> 0,
     max_context_tokens |-> 0,
     temperature_range |-> <<0, 0>>,
     rate_limit_remaining |-> rate_limit_remaining,
     decision_reason |-> reason]

\* the record logger.warning emits in _deny: the reason and nothing else
DenyWarning(reason) ==
    [level |-> "warning", message |-> "Policy gate denied", reason |-> reason]

\* the record _log_audit emits: AuditLogEntry.to_dict() of the entry built
\* in evaluate
AuditLogEntry(user_id, tenant_id, customer_id, role, requested_scopes, allowed_scopes, allowed_customers) ==
    [level |-> "info", message |-> "AUDIT",
     user_id |-> user_id, tenant_id |-> tenant_id, customer_id |-> customer_id,
     action |-> "rag_query", resource_type |-> "rag_documents",
     decision |-> "allowed", reason |-> "Access granted for role",
     requested_scopes |-> requested_scopes, allowed_scopes |-> allowed_scopes,
     allowed_customers |-> allowed_customers]

\* PolicyGate._get_allowed_scopes
GetAllowedScopes(role, is_admin, requested_scopes) ==
    IF is_admin \/ role = ROLE_ADMIN
    THEN SelectSeq(requested_scopes, LAMBDA s : s \in {ADMIN_LAW, CUSTOMER_DOC})
    ELSE IF role = ROLE_EMPLOYEE
    THEN (IF InList(ADMIN_LAW, requested_scopes) THEN <<ADMIN_LAW>> ELSE <<>>)
         \o (IF InList(CUSTOMER_DOC, requested_scopes) THEN <<CUSTOMER_DOC>> ELSE <<>>)
    ELSE IF role = ROLE_CUSTOMER
    THEN (IF InList(CUSTOMER_DOC, requested_scopes) THEN <<CUSTOMER_DOC>> ELSE <<>>)
    ELSE <<>>

\* mutant: the employee branch returns the requested customer without the
\* membership test against the assignment list
GetAllowedCustomersNoAssignmentCheck(user_id, role, is_admin, requested_customer_id) ==
    IF is_admin \/ role = ROLE_ADMIN
    THEN IF Truthy(requested_customer_id) THEN <<requested_customer_id>> ELSE <<>>
    ELSE IF role = ROLE_EMPLOYEE
    THEN IF Truthy(requested_customer_id)
         THEN <<requested_customer_id>>
         ELSE GetAssignedCustomers(user_id)
    ELSE IF role = ROLE_CUSTOMER
    THEN IF Truthy(requested_customer_id) THEN <<requested_customer_id>> ELSE <<>>
    ELSE <<>>

\* PolicyGate._get_allowed_customers
GetAllowedCustomers(user_id, role, is_admin, requested_customer_id) ==
    IF is_admin \/ role = ROLE_ADMIN
    THEN IF Truthy(requested_customer_id) THEN <<requested_customer_id>> ELSE <<>>
    ELSE IF role = ROLE_EMPLOYEE
    THEN IF Truthy(requested_customer_id)
         THEN IF InList(requested_customer_id, GetAssignedCustomers(user_id))
              THEN <<requested_customer_id>>
              ELSE <<>>
         ELSE GetAssignedCustomers(user_id)
    ELSE IF role = ROLE_CUSTOMER
    THEN IF Truthy(requested_customer_id) THEN <<requested_customer_id>> ELSE <<>>
    ELSE <<>>

\* the cache entry of user_id after the "reset window if expired" step
RateWindow(cache, user_id, t) ==
    LET entry == IF user_id \in DOMAIN cache
                 THEN cache[user_id]
                 ELSE [count |-> 0, window_start |-> t]
    IN  IF t - entry.window_start > WINDOW_SECONDS
        THEN [count |-> 0, window_start |-> t]
        ELSE entry

\* PolicyGate._check_rate_limit: the returned pair and the cache it leaves
CheckRateLimit(cache, user_id, role, t) ==
    LET max_requests == ROLE_LIMITS(role).rate_limit_per_hour
        entry == RateWindow(cache, user_id, t)
    IN  IF entry.count >= max_requests
        THEN [ok |-> FALSE, remaining |-> 0,
              cache |-> (user_id :> entry) @@ cache]
        ELSE [ok |-> TRUE, remaining |-> max_requests - (entry.count + 1),
              cache |-> (user_id :> [entry EXCEPT !.count = @ + 1]) @@ cache]

\* mutant: the "no customer access" denial reports the quota left after the
\* request was counted
EvaluateDenyKeepsRemaining(cache, user_id, tenant_id, customer_id, requested_scopes, t) ==
    LET user_info == GetUserInfo(user_id) IN
    IF user_info = NoUser
    THEN [decision |-> Deny("User not found", 0), cache |-> cache,
          logged |-> <<DenyWarning("User not found")>>]
    ELSE
    LET role == user_info.role
        is_admin == user_info.is_admin
        rl == CheckRateLimit(cache, user_id, role, t)
    IN
    IF ~rl.ok
    THEN [decision |-> Deny("Rate limit exceeded", 0), cache |-> rl.cache,
          logged |-> <<DenyWarning("Rate limit exceeded")>>]
    ELSE
    LET scopes0 == GetAllowedScopes(role, is_admin, requested_scopes) IN
    IF scopes0 = <<>>
    THEN [decision |-> Deny("No access to requested scopes", 0), cache |-> rl.cache,
          logged |-> <<DenyWarning("No access to requested scopes")>>]
    ELSE
    LET allowed_customer_ids == GetAllowedCustomers(user_id, role, is_admin, customer_id)
        allowed_scopes ==
            IF InList(CUSTOMER_DOC, scopes0) /\ allowed_customer_ids = <<>>
            THEN ListRemove(scopes0, CUSTOMER_DOC)
            ELSE scopes0
        limits == ROLE_LIMITS(role)
    IN
    IF allowed_scopes = <<>>
    THEN [decision |-> Deny("No access to customer documents", rl.remaining), cache |-> rl.cache,
          logged |-> <<DenyWarning("No access to customer documents")>>]
    ELSE [decision |->
            [allowed |-> TRUE,
             allowed_scopes |-> allowed_scopes,
             allowed_customer_ids |-> allowed_customer_ids,
             max_k |-> limits.max_k,
             max_context_tokens |-> limits.max_context_tokens,
             temperature_range |-> limits.temperature_range,
             rate_limit_remaining |-> rl.remaining,
             decision_reason |-> "Access granted"],
          cache |-> rl.cache,
          logged |-> <<AuditLogEntry(user_id, tenant_id, customer_id, role,
                                     requested_scopes, allowed_scopes,
                                     allowed_customer_ids)>>]

\* PolicyGate.evaluate: the PolicyDecision and the cache it leaves
Evaluate(cache, user_id, tenant_id, customer_id, requested_scopes, t) ==
    LET user_info == GetUserInfo(user_id) IN
    IF user_info = NoUser
    THEN [decision |-> Deny("User not found", 0), cache |-> cache,
          logged |-> <<DenyWarning("User not found")>>]
    ELSE
    LET role == user_info.role
        is_admin == user_info.is_admin
        rl == CheckRateLimit(cache, user_id, role, t)
    IN
    IF ~rl.ok
    THEN [decision |-> Deny("Rate limit exceeded", 0), cache |-> rl.cache,
          logged |-> <<DenyWarning("Rate limit exceeded")>>]
    ELSE
    LET scopes0 == GetAllowedScopes(role, is_admin, requested_scopes) IN
    IF scopes0 = <<>>
    THEN [decision |-> Deny("No access to requested scopes", 0), cache |-> rl.cache,
          logged |-> <<DenyWarning("No access to requested scopes")>>]
    ELSE
    LET allowed_customer_ids == GetAllowedCustomers(user_id, role, is_admin, customer_id)
        allowed_scopes ==
            IF InList(CUSTOMER_DOC, scopes0) /\ allowed_customer_ids = <<>>
            THEN ListRemove(scopes0, CUSTOMER_DOC)
            ELSE scopes0
        limits == ROLE_LIMITS(role)
    IN
    IF allowed_scopes = <<>>
    THEN [decision |-> Deny("No access to customer documents", 0), cache |-> rl.cache,
          logged |-> <<DenyWarning("No access to customer documents")>>]
    ELSE [decision |->
            [allowed |-> TRUE,
             allowed_scopes |-> allowed_scopes,
             allowed_customer_ids |-> allowed_customer_ids,
             max_k |-> limits.max_k,
             max_context_tokens |-> limits.max_context_tokens,
             temperature_range |-> limits.temperature_range,
             rate_limit_remaining |-> rl.remaining,
             decision_reason |-> "Access granted"],
          cache |-> rl.cache,
          logged |-> <<AuditLogEntry(user_id, tenant_id, customer_id, role,
                                     requested_scopes, allowed_scopes,
                                     allowed_customer_ids)>>]

-----------------------------------------------------------------------------
(* Qdrant search results *)

\* at most this many points match the filter of one search
MaxHits == 1

\* score of the i-th point of a search result, in hundredths: Qdrant returns
\* the points by decreasing score
ScoreAt(i) == 90 - 10 * (i - 1)

\* qdrant_store.search(limit, filter): the first `limit` of the `avail` points
\* that match the filter, each with the file_id and chunk_index of its payload
RECURSIVE SearchPoints(_, _, _, _)
SearchPoints(scope, customer_id, limit, avail) ==
    LET n == Min(limit, avail) IN
    IF n <= 0 THEN <<>>
    ELSE Append(SearchPoints(scope, customer_id, n - 1, n - 1),
                [scope |-> scope, customer_id |-> customer_id,
                 file_id |-> <<scope, customer_id, n>>, chunk_index |-> 0, score |-> ScoreAt(n)])

\* list.sort(key=lambda x: x["score"], reverse=True): stable, by decreasing score
RECURSIVE InsertByScore(_, _)
InsertByScore(sorted, x) ==
    IF sorted = <<>> THEN <<x>>
    ELSE IF Head(sorted).score >= x.score
         THEN <<Head(sorted)>> \o InsertByScore(Tail(sorted), x)
         ELSE <<x>> \o sorted

RECURSIVE SortByScore(_)
SortByScore(s) ==
    IF s = <<>> THEN <<>>
    ELSE InsertByScore(SortByScore(SubSeq(s, 1, Len(s) - 1)), s[Len(s)])

\* s[:n]
Take(s, n) == SubSeq(s, 1, Min(n, Len(s)))

-----------------------------------------------------------------------------
(* EnhancedRAGPipeline *)

\* process_query: the scopes list handed to _policy_gate
ScopesOf(include_admin_laws, include_customer_docs) ==
    (IF include_admin_laws THEN <<ADMIN_LAW>> ELSE <<>>)
        \o (IF include_customer_docs THEN <<CUSTOMER_DOC>> ELSE <<>>)

\* EnhancedRAGPipeline._policy_gate
PolicyGateResultOf(d) ==
    IF ~d.allowed
    THEN [allowed_collections |-> <<>>,
          allowed_scopes |-> <<>>,
          allowed_customer_ids |-> <<>>,
          max_k |-> 0,
          max_context_tokens |-> 0,
          decision_reason |-> d.decision_reason]
    ELSE [allowed_collections |-> <<"documents", "chat_memory">>,
          allowed_scopes |-> d.allowed_scopes,
          allowed_customer_ids |-> d.allowed_customer_ids,
          max_k |-> d.max_k,
          max_context_tokens |-> d.max_context_tokens,
          decision_reason |-> d.decision_reason]

\* the keyword lists of _route_and_plan; a question is the set of the lists
\* of which it contains a word
KeywordLists ==
    {"contract", "legal", "kam", "tcwg", "planning", "sampling", "pbc",
     "forensic", "cycle"}

Plan(intent, admin_budget, customer_budget) ==
    [intent |-> intent,
     admin_law_budget |-> admin_budget,
     customer_doc_budget |-> customer_budget,
     chat_memory_budget |-> 3]

\* mutant: the KAM branch stands before the legal one
RouteAndPlanKamFirst(question) ==
    LET first == IF "contract" \in question
                 THEN Plan("contract_signatories", 2, 8)
                 ELSE Plan("smalltalk", 2, 0)
    IN  IF "kam" \in question THEN Plan("kam", 6, 6)
        ELSE IF "legal" \in question THEN Plan("legal_subsequent_events", 8, 3)
        ELSE IF "tcwg" \in question THEN Plan("tcwg_communications", 4, 4)
        ELSE IF "planning" \in question THEN Plan("planning_materiality", 7, 2)
        ELSE IF "sampling" \in question THEN Plan("sampling", 6, 3)
        ELSE IF "pbc" \in question THEN Plan("pbc_waves", 3, 6)
        ELSE IF "forensic" \in question THEN Plan("forensic_red_flags", 8, 4)
        ELSE IF "cycle" \in question THEN Plan("cycle_deep_dive", 5, 7)
        ELSE first

\* EnhancedRAGPipeline._route_and_plan
RouteAndPlan(question) ==
    LET first == IF "contract" \in question
                 THEN Plan("contract_signatories", 2, 8)
                 ELSE Plan("smalltalk", 2, 0)
    IN  IF "legal" \in question THEN Plan("legal_subsequent_events", 8, 3)
        ELSE IF "kam" \in question THEN Plan("kam", 6, 6)
        ELSE IF "tcwg" \in question THEN Plan("tcwg_communications", 4, 4)
        ELSE IF "planning" \in question THEN Plan("planning_materiality", 7, 2)
        ELSE IF "sampling" \in question THEN Plan("sampling", 6, 3)
        ELSE IF "pbc" \in question THEN Plan("pbc_waves", 3, 6)
        ELSE IF "forensic" \in question THEN Plan("forensic_red_flags", 8, 4)
        ELSE IF "cycle" \in question THEN Plan("cycle_deep_dive", 5, 7)
        ELSE first

\* the keyword lists with a word that is a substring of w, for the words of
\* a lower-cased question: "word in question_lower" is a substring test, so
\* materiality holds material, planning holds plan and board holds ar
ListsMatching(w) ==
    CASE w = "lawsuit" -> {"legal"}
      [] w = "kam" -> {"kam"}
      [] w = "tcwg" -> {"tcwg"}
      [] w = "board" -> {"tcwg", "cycle"}
      [] w = "materiality" -> {"kam", "planning"}
      [] w = "planning" -> {"planning"}
      [] w = "sample" -> {"sampling"}
      [] w = "provide" -> {"pbc"}
      [] w = "fraud" -> {"forensic"}
      [] w = "revenue" -> {"cycle"}
      [] w = "dogovor" -> {"contract"}
      [] OTHER -> {}

\* the keyword lists of which a question, a set of words, contains a word
MatchedLists(words) == UNION {ListsMatching(w) : w \in words}

\* _route_and_plan, the cycle branch: the standards added for the cycle named
CycleStandards(words) ==
    IF "revenue" \in words THEN <<"IFRS 15", "IAS 20">>
    ELSE IF "lease" \in words THEN <<"IFRS 16">>
    ELSE IF "inventory" \in words THEN <<"IAS 2">>
    ELSE <<>>

\* the fields a branch of _route_and_plan assigns besides intent and budgets
Hints(required_evidence, standards, patterns) ==
    [required_evidence |-> required_evidence, governing_standards |-> standards,
     exact_patterns |-> patterns]

\* a branch that assigns no patterns, or no standards, leaves the value it finds
KeepPatterns(h, required_evidence, standards) ==
    Hints(required_evidence, standards, h.exact_patterns)

\* _route_and_plan: required_evidence, governing_standards and exact_patterns
\* of the plan, before the literals found in the question are appended
PlanHints(question, words) ==
    LET first == IF "contract" \in question
                 THEN Hints("must_cite", <<>>, <<"signatories", "names", "roles">>)
                 ELSE Hints("helpful", <<>>, <<>>)
    IN  IF "legal" \in question
        THEN Hints("must_cite", <<"IAS 37", "IAS 10", "ISA 501">>,
                   <<"legal_references", "dates", "amounts">>)
        ELSE IF "kam" \in question
        THEN Hints("must_cite", <<"ISA 701">>,
                   <<"materiality_indicators", "judgment_areas">>)
        ELSE IF "tcwg" \in question
        THEN KeepPatterns(first, "helpful", <<"ISA 260", "ISA 580">>)
        ELSE IF "planning" \in question
        THEN Hints("must_cite", <<"ISA 320", "ISA 220">>,
                   <<"amounts", "benchmarks", "percentages">>)
        ELSE IF "sampling" \in question
        THEN Hints("must_cite", <<"ISA 530">>, <<"population_sizes", "sample_methods">>)
        ELSE IF "pbc" \in question
        THEN Hints("helpful", first.governing_standards, <<"document_types", "formats">>)
        ELSE IF "forensic" \in question
        THEN Hints("must_cite", <<"ISA 240">>, <<"anomaly_patterns", "red_flags">>)
        ELSE IF "cycle" \in question
        THEN Hints("must_cite", first.governing_standards \o CycleStandards(words),
                   <<"cycle_specific_terms", "account_references">>)
        ELSE first

\* the QueryPlan _route_and_plan returns for the words of a question
QueryPlanOf(words) ==
    RouteAndPlan(MatchedLists(words)) @@ PlanHints(MatchedLists(words), words)

\* one qdrant_store.search call, as the history records it
SearchCall(by, scope, customer_id, owner_id, limit) ==
    [by |-> by, scope |-> scope, customer_id |-> customer_id,
     owner_id |-> owner_id, limit |-> limit]

\* _retrieve_evidence, the loop over allowed_customer_ids: avail[k] points
\* match the filter of the search for the k-th customer
RECURSIVE CustomerLoop(_, _, _, _)
CustomerLoop(ids, k, per_customer_limit, avail) ==
    IF k > Len(ids) THEN [docs |-> <<>>, searches |-> <<>>]
    ELSE LET rest == CustomerLoop(ids, k + 1, per_customer_limit, avail) IN
         [docs |-> SearchPoints(CUSTOMER_DOC, ids[k], per_customer_limit, avail[k])
                        \o rest.docs,
          searches |-> <<SearchCall("enhanced", CUSTOMER_DOC, ids[k], None,
                                    per_customer_limit)>> \o rest.searches]

\* EnhancedRAGPipeline._retrieve_evidence: admin_avail points match the
\* ADMIN_LAW filter; conversation_state["chat_memories"] is always empty
RetrieveEvidence(qplan, gate, admin_avail, avail) ==
    LET admin_on == InList(ADMIN_LAW, gate.allowed_scopes)
                        /\ qplan.admin_law_budget > 0
        ids == gate.allowed_customer_ids
        customer_on == InList(CUSTOMER_DOC, gate.allowed_scopes)
                        /\ qplan.customer_doc_budget > 0 /\ ids /= <<>>
        per_customer_limit ==
            IF customer_on THEN Max(1, qplan.customer_doc_budget \div Len(ids)) ELSE 0
        loop == IF customer_on THEN CustomerLoop(ids, 1, per_customer_limit, avail)
                ELSE [docs |-> <<>>, searches |-> <<>>]
    IN  [results |->
            [admin_law |-> IF admin_on
                           THEN SearchPoints(ADMIN_LAW, None, qplan.admin_law_budget,
                                             admin_avail)
                           ELSE <<>>,
             customer_docs |-> loop.docs,
             chat_memory |-> <<>>],
         searches |->
            (IF admin_on
             THEN <<SearchCall("enhanced", ADMIN_LAW, None, None,
                               qplan.admin_law_budget)>>
             ELSE <<>>) \o loop.searches]

\* mutant: seen.add(key) is missing, so no candidate is ever dropped
DedupeForgetsSeen(all_evidence, seen) == all_evidence

\* _merge_and_dedupe, the loop over all_evidence: the first candidate of each
\* (file_id, chunk_index) is kept
RECURSIVE DedupeFirst(_, _)
DedupeFirst(all_evidence, seen) ==
    IF all_evidence = <<>> THEN <<>>
    ELSE LET evidence == Head(all_evidence)
             key == <<evidence.file_id, evidence.chunk_index>>
         IN  IF key \in seen THEN DedupeFirst(Tail(all_evidence), seen)
             ELSE <<evidence>> \o DedupeFirst(Tail(all_evidence), seen \cup {key})

\* _merge_and_dedupe: evidence["source_type"] = source_type for a list of the dict
WithSourceType(evidence_list, source_type) ==
    [i \in 1..Len(evidence_list) |->
        [source_type |-> source_type] @@ evidence_list[i]]

\* EnhancedRAGPipeline._merge_and_dedupe
MergeAndDedupe(results) ==
    LET all_evidence == WithSourceType(results.admin_law, "admin_law")
                            \o WithSourceType(results.customer_docs, "customer_docs")
                            \o WithSourceType(results.chat_memory, "chat_memory")
    IN  SortByScore(DedupeFirst(all_evidence, {}))

\* _filter_noise: the text of a candidate holds one of the signatory keywords
HasSignatoryKeyword(text) == text = "signatory"

\* SelectSeq without a LAMBDA: the elements of s whose text holds a keyword
RECURSIVE Narrowed(_)
Narrowed(s) ==
    IF s = <<>> THEN <<>>
    ELSE (IF HasSignatoryKeyword(Head(s).text) THEN <<Head(s)>> ELSE <<>>)
            \o Narrowed(Tail(s))

\* mutant: one cap for every intent
PerFileCapSame(intent) == 3

\* _filter_noise: per_file_cap
PerFileCap(intent) == IF intent = "contract_signatories" THEN 2 ELSE 3

\* _filter_noise, the loop over the sorted candidates: counts is the dict of
\* the candidates seen per file_id
RECURSIVE Capped(_, _, _)
Capped(sorted, counts, per_file_cap) ==
    IF sorted = <<>> THEN <<>>
    ELSE LET cand == Head(sorted)
             n == (IF cand.file_id \in DOMAIN counts THEN counts[cand.file_id] ELSE 0) + 1
             counted == (cand.file_id :> n) @@ counts
         IN  (IF n <= per_file_cap THEN <<cand>> ELSE <<>>)
                \o Capped(Tail(sorted), counted, per_file_cap)

\* EnhancedRAGPipeline._filter_noise
FilterNoise(evidence, intent) ==
    IF evidence = <<>> THEN evidence
    ELSE LET narrowed == IF intent = "contract_signatories" THEN Narrowed(evidence)
                         ELSE <<>>
             filtered == IF narrowed /= <<>> THEN narrowed ELSE evidence
         IN  Capped(SortByScore(filtered), <<>>, PerFileCap(intent))

-----------------------------------------------------------------------------
(* RAGService *)

\* RAGService.query: default of top_k
TOP_K == 5

\* RAGService._search_qdrant_documents
SearchQdrantDocuments(customer_id, include_admin_laws, include_customer_docs, owner_id, limit, admin_avail, customer_avail) ==
    LET customer_on == include_customer_docs /\ Truthy(customer_id)
        admin == IF include_admin_laws
                 THEN SearchPoints(ADMIN_LAW, None, limit, admin_avail)
                 ELSE <<>>
        customer == IF customer_on
                    THEN SearchPoints(CUSTOMER_DOC, customer_id, limit, customer_avail)
                    ELSE <<>>
    IN  [results |-> Take(SortByScore(admin \o customer), limit),
         searches |->
            (IF include_admin_laws
             THEN <<SearchCall("basic", ADMIN_LAW, None, None, limit)>>
             ELSE <<>>)
            \o (IF customer_on
                THEN <<SearchCall("basic", CUSTOMER_DOC, customer_id, owner_id, limit)>>
                ELSE <<>>)]

-----------------------------------------------------------------------------
(* The Qdrant index written by the file services *)

\* the payload the indexers store with the vector of a chunk
IndexPayload(file_id, chunk_index, scope, customer_id, owner_id) ==
    [file_id |-> file_id, chunk_index |-> chunk_index, scope |-> scope,
     customer_id |-> customer_id, owner_id |-> owner_id]

\* the points of the index
Index ==
    { IndexPayload("law1", 0, ADMIN_LAW, None, "admin1"),
      IndexPayload("doc1", 0, CUSTOMER_DOC, "C201", "emp1"),
      IndexPayload("doc1", 4, CUSTOMER_DOC, "C201", "emp1"),
      IndexPayload("doc2", 0, CUSTOMER_DOC, "C123", "admin1") }

\* the similarity of a point to a query vector, in hundredths
Scores == {77, 81}

\* QdrantVectorStore.build_filter
BuildFilter(scope, customer_id, owner_id) ==
    [scope |-> scope, customer_id |-> customer_id, owner_id |-> owner_id]

\* the Filter(must=conditions) of build_filter holds of a payload
Matches(payload, filt) ==
    /\ filt.scope /= None => payload.scope = filt.scope
    /\ filt.customer_id /= None => payload.customer_id = filt.customer_id
    /\ filt.owner_id /= None => payload.owner_id = filt.owner_id

\* the lists QdrantVectorStore.search can return: at most limit points that
\* match the filter, no point twice, by decreasing score
SearchResults(filt, limit) ==
    LET scored == {[payload |-> p, score |-> s] :
                        p \in {x \in Index : Matches(x, filt)}, s \in Scores}
        lists == UNION {[1..n -> scored] : n \in 0..Min(limit, MaxHits)}
    IN  {l \in lists :
            /\ \A i, j \in 1..Len(l) : i < j =>
                    /\ l[i].payload /= l[j].payload
                    /\ l[i].score >= l[j].score}

\* payload.get(key)
PayloadGet(payload, key) == IF key \in DOMAIN payload THEN payload[key] ELSE None

-----------------------------------------------------------------------------
(* HybridRAGService *)

\* query, evidence_only: retrieve_k handed to _retrieve_multi
RETRIEVE_K == 30

\* HybridRAGService._policy_gate
HybridPolicyGate(owner_id, customer_id, include_admin_laws, include_customer_docs) ==
    LET allowed_scopes ==
            (IF include_admin_laws /\ owner_id = None THEN <<ADMIN_LAW>> ELSE <<>>)
            \o (IF include_customer_docs /\ Truthy(customer_id)
                THEN <<CUSTOMER_DOC>> ELSE <<>>)
    IN  [tenant_id |-> None,
         customer_id |-> customer_id,
         allowed_scopes |-> allowed_scopes,
         filters |-> [tenant_id |-> None, customer_id |-> customer_id,
                      owner_id |-> owner_id, scope |-> allowed_scopes]]

\* HybridRAGService._route_question, without the keyword domain
RouteQuestion(customer_id, owner_id, include_admin_laws, include_customer_docs) ==
    [filters |-> [customer_id |-> customer_id, owner_id |-> owner_id],
     include_admin_laws |-> include_admin_laws,
     include_customer_docs |-> include_customer_docs /\ Truthy(customer_id)]

\* HybridRAGService._normalize_qdrant_hits
NormalizeQdrantHits(found, scope) ==
    [i \in 1..Len(found) |->
        [source |-> "qdrant",
         scope |-> scope,
         score |-> found[i].score,
         chunk_id |-> PayloadGet(found[i].payload, "chunk_id"),
         file_id |-> PayloadGet(found[i].payload, "file_id"),
         chunk_index |-> PayloadGet(found[i].payload, "chunk_index"),
         customer_id |-> PayloadGet(found[i].payload, "customer_id"),
         owner_id |-> PayloadGet(found[i].payload, "owner_id")]]

\* _retrieve_multi: key = str(it.get("chunk_id") or "")
MergeKey(it) == IF Truthy(it.chunk_id) THEN it.chunk_id ELSE ""

\* _retrieve_multi: one round of the loop over the normalized hits; the dict
\* is the list of its entries in insertion order
MergeHit(dict, it) ==
    LET key == MergeKey(it)
        at == {i \in 1..Len(dict) : dict[i].key = key}
    IN  IF at = {} THEN Append(dict, [key |-> key, item |-> it])
        ELSE LET i == CHOOSE x \in at : TRUE IN
             IF it.score > dict[i].item.score
             THEN [dict EXCEPT ![i].item = it]
             ELSE dict

RECURSIVE MergeHits(_, _)
MergeHits(dict, items) ==
    IF items = <<>> THEN dict
    ELSE MergeHits(MergeHit(dict, Head(items)), Tail(items))

\* list(merged.values())
Values(dict) == [i \in 1..Len(dict) |-> dict[i].item]

-----------------------------------------------------------------------------
(* Evidence packs *)

\* dict.get(key) is not None
HasKey(d, key) == key \in DOMAIN d

\* a row of file_chunks with the attributes _build_evidence_sql reads of it;
\* files/models.py declares FileChunk with id, file_id, chunk_index and text, so
\* scope, customer_id and owner_id are the function's own view of a row
FileChunkRow(id, file_id, chunk_index, scope, customer_id, owner_id) ==
    [id |-> id, file_id |-> file_id, chunk_index |-> chunk_index, scope |-> scope,
     customer_id |-> customer_id, owner_id |-> owner_id]

\* the rows of file_chunks: four chunks of a customer document, two of a law
FileChunkTable ==
    { FileChunkRow("d0", "doc1", 0, CUSTOMER_DOC, "C201", "emp1"),
      FileChunkRow("d1", "doc1", 1, CUSTOMER_DOC, "C201", "emp1"),
      FileChunkRow("d2", "doc1", 2, CUSTOMER_DOC, "C201", "emp1"),
      FileChunkRow("d3", "doc1", 3, CUSTOMER_DOC, "C201", "emp1"),
      FileChunkRow("l0", "law1", 0, ADMIN_LAW, None, "admin1"),
      FileChunkRow("l1", "law1", 1, ADMIN_LAW, None, "admin1") }

\* uuid.UUID(str(x)) succeeds
IsUuid(x) == Truthy(x) /\ x /= "not-a-uuid"

\* the text of a seed does not end a sentence or starts in lower case
Ragged(text) == text = "ragged"

\* HybridRAGService._format_citation: the parts of the string, in order
FormatCitation(item) ==
    LET scope == IF HasKey(item, "scope") /\ Truthy(item.scope) THEN item.scope
                 ELSE "UNKNOWN_SCOPE"
        filename == IF HasKey(item, "filename") /\ Truthy(item.filename)
                    THEN item.filename ELSE ""
        file_id == IF HasKey(item, "file_id") /\ Truthy(item.file_id)
                   THEN item.file_id ELSE ""
        src == IF filename /= "" THEN filename
               ELSE IF file_id /= "" THEN file_id ELSE "unknown_source"
    IN  IF HasKey(item, "chunk_index")
        THEN <<"scope=", scope, "source=", src, "chunk=", item.chunk_index>>
        ELSE <<"scope=", scope, "source=", src>>

\* self._db.get(FileChunk, chunk_uuid): the set of rows with that id
RowsById(chunk_id) == {r \in FileChunkTable : IsUuid(chunk_id) /\ r.id = chunk_id}

\* the query of _build_evidence_sql with its filters
RowsInRange(file_id, start, end, scope, customer_id, owner_id) ==
    {r \in FileChunkTable :
        /\ r.file_id = file_id
        /\ r.chunk_index >= start
        /\ r.chunk_index <= end
        /\ Truthy(scope) => r.scope = scope
        /\ (scope = CUSTOMER_DOC /\ Truthy(customer_id)) => r.customer_id = customer_id
        /\ (scope = CUSTOMER_DOC /\ Truthy(owner_id)) => r.owner_id = owner_id}

\* order_by(FileChunk.chunk_index.asc()).all()
RECURSIVE OrderByChunkIndex(_)
OrderByChunkIndex(S) ==
    IF S = {} THEN <<>>
    ELSE LET first == CHOOSE r \in S : \A o \in S : r.chunk_index <= o.chunk_index
         IN  <<first>> \o OrderByChunkIndex(S \ {first})

\* _build_evidence_sql: the evidence item of the rows found for a seed
EvidenceItem(rows, scope, score) ==
    LET item == [source |-> "sql",
                 scope |-> scope,
                 score |-> score,
                 chunk_id |-> rows[(Len(rows) \div 2) + 1].id,
                 file_id |-> rows[1].file_id,
                 chunk_index |-> rows[1].chunk_index,
                 chunk_index_range |-> <<rows[1].chunk_index, rows[Len(rows)].chunk_index>>,
                 customer_id |-> rows[1].customer_id,
                 owner_id |-> rows[1].owner_id]
    IN  item @@ [citation |-> FormatCitation(item)]

\* _build_evidence_sql: dedup_key
DedupKey(evidence_item) == <<evidence_item.file_id, evidence_item.chunk_index_range>>

\* _build_evidence_sql: the loop over the seeds
RECURSIVE EvidenceLoop(_, _, _, _)
EvidenceLoop(seeds, out, seen, pol) ==
    IF seeds = <<>> THEN out
    ELSE
      LET s == Head(seeds)
          byId == IF Truthy(s.chunk_id) THEN RowsById(s.chunk_id) ELSE {}
          row == CHOOSE r \in byId : TRUE
          hasFile == IF byId /= {} THEN TRUE ELSE HasKey(s, "file_id") /\ Truthy(s.file_id)
          hasIndex == IF byId /= {} THEN TRUE ELSE HasKey(s, "chunk_index")
          file_id == IF byId /= {} THEN row.file_id ELSE s.file_id
          chunk_index == IF byId /= {} THEN row.chunk_index ELSE s.chunk_index
          scope == IF byId /= {} /\ Truthy(row.scope) THEN row.scope ELSE s.scope
          k == IF Ragged(s.text) THEN 2 ELSE 1
          start == Max(0, chunk_index - k)
          end == chunk_index + k
          rows == OrderByChunkIndex(RowsInRange(file_id, start, end, scope,
                                                pol.customer_id, pol.owner_id))
          evidence_item == EvidenceItem(rows, scope, s.score)
      IN  IF ~hasFile \/ ~hasIndex THEN EvidenceLoop(Tail(seeds), out, seen, pol)
          ELSE IF ~IsUuid(file_id) THEN EvidenceLoop(Tail(seeds), out, seen, pol)
          ELSE IF rows = <<>> THEN EvidenceLoop(Tail(seeds), out, seen, pol)
          ELSE IF DedupKey(evidence_item) \in seen
               THEN EvidenceLoop(Tail(seeds), out, seen, pol)
          ELSE EvidenceLoop(Tail(seeds), Append(out, evidence_item),
                            seen \cup {DedupKey(evidence_item)}, pol)

\* HybridRAGService._build_evidence_sql; db is FALSE when self._db is None
BuildEvidenceSql(seeds, pol, db) ==
    IF seeds = <<>> THEN <<>>
    ELSE IF ~db THEN seeds
    ELSE EvidenceLoop(seeds, <<>>, {}, pol)

-----------------------------------------------------------------------------
(* Rerankers *)

\* what a model call yields: it raises ("raises") or returns a non-empty str,
\* which holds a list of index tokens ("indices"), the word candidates and no
\* list ("word") or neither ("empty"); "object" is the response mapping with
\* the key candidates that the pipeline indexes into, holding a list of index
\* tokens. GeminiAPI.generate_content returns the str.
RerankReply(kind, indices) == [kind |-> kind, indices |-> indices]

\* 'candidates' in response, for a str: a substring test
ContainsCandidates(reply) == reply.kind = "word"

\* the elements of s that satisfy lo <= x <= hi, in order
RECURSIVE InRange(_, _, _)
InRange(s, lo, hi) ==
    IF s = <<>> THEN <<>>
    ELSE (IF lo <= Head(s) /\ Head(s) <= hi THEN <<Head(s)>> ELSE <<>>)
            \o InRange(Tail(s), lo, hi)

\* mutant: the fallback returns the candidates uncut
RerankFallbackUncut(items, final_k) == items

\* _rerank_llm: return items[:final_k]
RerankFallback(items, final_k) == Take(items, final_k)

\* _rerank_llm, the loop over idxs: repeated indices are skipped and the loop
\* stops at final_k candidates
RECURSIVE DedupSelected(_, _, _, _, _)
DedupSelected(items, idxs, seen, dedup, final_k) ==
    IF idxs = <<>> \/ Len(dedup) >= final_k THEN dedup
    ELSE IF Head(idxs) \in seen
         THEN DedupSelected(items, Tail(idxs), seen, dedup, final_k)
         ELSE DedupSelected(items, Tail(idxs), seen \cup {Head(idxs)},
                            Append(dedup, items[Head(idxs)]), final_k)

\* _rerank_llm, the loop over items that fills dedup up to final_k
RECURSIVE Backfill(_, _, _)
Backfill(items, dedup, final_k) ==
    IF items = <<>> \/ Len(dedup) >= final_k THEN dedup
    ELSE Backfill(Tail(items),
                  IF InList(Head(items), dedup) THEN dedup
                  ELSE Append(dedup, Head(items)),
                  final_k)

\* HybridRAGService._rerank_llm
RerankLlm(candidates, k, reply) ==
    LET final_k == Max(1, k)
        items == Take(candidates, 30)
        idxs == IF reply.kind = "indices" THEN InRange(reply.indices, 1, Len(items))
                ELSE <<>>
    IN  IF candidates = <<>> THEN <<>>
        ELSE IF Len(candidates) <= final_k THEN candidates
        ELSE IF reply.kind = "raises" THEN RerankFallback(items, final_k)
        ELSE IF idxs = <<>> THEN RerankFallback(items, final_k)
        ELSE Backfill(items, DedupSelected(items, idxs, {}, <<>>, final_k), final_k)

\* s[i] - 1 for every element
Decremented(s) == [i \in 1..Len(s) |-> s[i] - 1]

\* [ev for i, ev in enumerate(evidence) if i not in valid_indices]
RECURSIVE Remaining(_, _, _)
Remaining(evidence, i, valid_indices) ==
    IF i > Len(evidence) THEN <<>>
    ELSE (IF InList(i - 1, valid_indices) THEN <<>> ELSE <<evidence[i]>>)
            \o Remaining(evidence, i + 1, valid_indices)

\* EnhancedRAGPipeline._rerank_evidence: a str passes 'candidates' in response
\* only as a substring, and response['candidates'] then raises TypeError into
\* the outer except; every path of a str ends in evidence[:15]
RerankEvidence(evidence, reply) ==
    LET valid_indices == InRange(Decremented(reply.indices), 0, Len(evidence) - 1)
        top == Take(valid_indices, 10)
        reranked == [i \in 1..Len(top) |-> evidence[top[i] + 1]]
    IN  IF Len(evidence) <= 10 THEN evidence
        ELSE IF reply.kind = "raises" THEN Take(evidence, 15)
        ELSE IF reply.kind = "object"
             THEN reranked \o Take(Remaining(evidence, 1, valid_indices), 5)
        ELSE IF ContainsCandidates(reply) THEN Take(evidence, 15)
        ELSE Take(evidence, 15)

-----------------------------------------------------------------------------
(* Answer generation and grounding check *)

\* _generate_response: the text returned when the generation fails
Apology == "I apologize, but I encountered an error generating the response."

\* a reply of the model to a prompt: kind as in RerankReply; content tells, for
\* a response mapping, what its text holds: a verdict object ("verdict"), no
\* JSON ("not_json") or JSON that is no object ("not_object")
ModelReply(kind, content, verdict) == [kind |-> kind, content |-> content, verdict |-> verdict]

\* EnhancedRAGPipeline._generate_response
GenerateResponseOf(reply) ==
    IF reply.kind = "object" THEN [text |-> "answer", success |-> TRUE]
    ELSE [text |-> Apology, success |-> FALSE, error |-> reply.kind]

\* _grounding_check: the return behind the try statement; scores in hundredths
GroundingFallback(response_text) ==
    [text |-> response_text, grounded |-> TRUE, score |-> 70,
     issues |-> <<"Grounding check failed">>, suggestions |-> <<>>]

\* EnhancedRAGPipeline._grounding_check
GroundingCheck(response, reply) ==
    IF ~response.success THEN response
    ELSE IF reply.kind = "raises" THEN GroundingFallback(response.text)
    ELSE IF reply.kind = "object"
         THEN IF reply.content = "verdict"
              THEN reply.verdict @@ [text |-> response.text]
              ELSE IF reply.content = "not_json"
              THEN [text |-> response.text, grounded |-> TRUE, score |-> 80,
                    issues |-> <<>>, suggestions |-> <<>>]
              ELSE GroundingFallback(response.text)
    ELSE IF ContainsCandidates(reply) THEN GroundingFallback(response.text)
    ELSE GroundingFallback(response.text)

\* process_query from _generate_response to its return
ProcessQueryReturn(evidence, generation, check) ==
    LET grounded_response == GroundingCheck(GenerateResponseOf(generation), check)
    IN  [raised |-> FALSE,
         answer |-> grounded_response.text,
         evidence_pack |-> evidence,
         sources_used |-> [i \in 1..Len(evidence) |-> evidence[i].citation],
         grounding_score |-> IF HasKey(grounded_response, "score")
                             THEN grounded_response.score ELSE 0]

\* HybridRAGService.query from the generation call to its return: the call
\* stands outside any try statement
HybridQueryReturn(evidence, generation) ==
    IF generation.kind = "raises"
    THEN [raised |-> TRUE]
    ELSE [raised |-> FALSE, answer |-> "answer", context |-> evidence]

-----------------------------------------------------------------------------
(* Retrieval with a failing vector search *)

\* _retrieve_evidence when searches raise: each search stands in a try
\* statement whose except clause logs and goes on, so a search that raises
\* appends nothing for its scope or customer
RetrieveEvidenceGuarded(qplan, gate, admin_avail, avail, admin_raises, raises) ==
    [raised |-> FALSE,
     results |-> RetrieveEvidence(qplan, gate,
                                  IF admin_raises THEN 0 ELSE admin_avail,
                                  [k \in DOMAIN avail |->
                                        IF raises[k] THEN 0 ELSE avail[k]]).results]

\* what one call of QdrantVectorStore.search does: it raises, or returns found
SearchOutcome(raises, found) == [raises |-> raises, found |-> found]

\* _retrieve_multi, the loop over the subqueries: rounds holds the outcomes of
\* the two searches of each subquery; no search stands in a try statement
RECURSIVE RetrieveMultiLoop(_, _, _, _, _)
RetrieveMultiLoop(rounds, dict, include_admin_laws, include_customer_docs, pol) ==
    IF rounds = <<>>
    THEN [raised |-> FALSE,
          items |-> Take(SortByScore(Values(dict)), Max(RETRIEVE_K, 30))]
    ELSE
      LET r == Head(rounds)
          customer_on == include_customer_docs /\ Truthy(pol.customer_id)
          with_admin == IF include_admin_laws
                        THEN MergeHits(dict, NormalizeQdrantHits(r.admin.found, ADMIN_LAW))
                        ELSE dict
          with_customer == IF customer_on
                           THEN MergeHits(with_admin,
                                          NormalizeQdrantHits(r.customer.found, CUSTOMER_DOC))
                           ELSE with_admin
      IN  IF include_admin_laws /\ r.admin.raises THEN [raised |-> TRUE, items |-> <<>>]
          ELSE IF customer_on /\ r.customer.raises THEN [raised |-> TRUE, items |-> <<>>]
          ELSE RetrieveMultiLoop(Tail(rounds), with_customer, include_admin_laws,
                                 include_customer_docs, pol)

\* HybridRAGService._retrieve_multi
RetrieveMulti(rounds, pol, include_admin_laws, include_customer_docs, mode) ==
    IF mode = "lightrag" THEN [raised |-> FALSE, items |-> <<>>]
    ELSE RetrieveMultiLoop(rounds, <<>>, include_admin_laws, include_customer_docs, pol)

-----------------------------------------------------------------------------
(* Specification SpecGate: calls of PolicyGate.evaluate on one gate *)

\* at most this many requests are counted for the users other than the caller
MaxBackground == 1

\* requested_scopes lists handed to evaluate
RequestedScopeLists ==
    { <<>>, <<ADMIN_LAW>>, <<CUSTOMER_DOC>>, <<ADMIN_LAW, CUSTOMER_DOC>>,
      <<CUSTOMER_DOC, CUSTOMER_DOC>>, <<"CHAT_MEMORY">> }

\* customer_id arguments handed to evaluate
RequestedCustomers == {None, "C123", "C201"}

NoRequest == [user_id |-> None, customer_id |-> None, requested_scopes |-> <<>>]

\* placeholder held by decision before the first call
NoDecision == Deny("no call yet", 0)

\* evaluate has been called
Called == request.user_id /= None

\* the variables of the other specifications, parked
WindowIdle == allowed_log = <<>> /\ ticks = 0

ConcIdle == co = <<>> /\ ready = <<>>

NoQuery ==
    [question |-> {}, customer_id |-> None, include_admin_laws |-> FALSE,
     include_customer_docs |-> FALSE, owner_id |-> None, tenant_id |-> None,
     user_id |-> None]

\* placeholder held by policy_result until _policy_gate has run
NoPolicyResult ==
    [allowed_collections |-> <<>>, allowed_scopes |-> <<>>,
     allowed_customer_ids |-> <<>>, max_k |-> 0, max_context_tokens |-> 0,
     decision_reason |-> "not evaluated"]

NoEvidence == [admin_law |-> <<>>, customer_docs |-> <<>>, chat_memory |-> <<>>]

\* no query call is in progress and none has changed anything
QueryFresh ==
    /\ qargs = NoQuery
    /\ policy_result = NoPolicyResult
    /\ query_plan = RouteAndPlan({})
    /\ evidence_results = NoEvidence
    /\ context_docs = <<>>
    /\ merged_evidence = <<>>
    /\ searches = <<>>
    /\ generations = 0
    /\ outcome = "none"

QueryIdle == qpc = "idle" /\ queries = 0 /\ QueryFresh

NoHybridQuery ==
    [method |-> None, customer_id |-> None, owner_id |-> None,
     include_admin_laws |-> FALSE, include_customer_docs |-> FALSE, mode |-> None]

\* no retrieval of the hybrid service is in progress and none has left a trace
HybridFresh ==
    /\ sq = 1
    /\ merged = <<>>
    /\ retrieved = <<>>
    /\ hits = {}
    /\ hsearches = <<>>

\* no function has been applied on its own
UnitIdle == fn = "none" /\ args = <<>> /\ returns = <<>>

HybridIdle ==
    /\ hpc = "idle"
    /\ hq = NoHybridQuery
    /\ policy = HybridPolicyGate(None, None, FALSE, FALSE)
    /\ router = RouteQuestion(None, None, FALSE, FALSE)
    /\ plan = [subqueries |-> <<>>]
    /\ HybridFresh

\* the indexing worker has no file and no job
IndexIdle == stored_files = <<>> /\ jobs = <<>>

\* no embedding service has been constructed
EmbedIdle == providers = <<>> /\ embedding_cache = <<>>

CountOf(cache, u) == IF u \in DOMAIN cache THEN cache[u].count ELSE 0

GateInit ==
    /\ rate_limit_cache = <<>>
    /\ now = 0
    /\ request = NoRequest
    /\ decision = NoDecision
    /\ audit_log = <<>>
    /\ IndexIdle
    /\ EmbedIdle
    /\ WindowIdle
    /\ ConcIdle
    /\ QueryIdle
    /\ HybridIdle
    /\ UnitIdle

\* one call of PolicyGate.evaluate
EvaluateCall(user_id, customer_id, requested_scopes) ==
    /\ \A v \in DOMAIN rate_limit_cache \ {user_id} :
            rate_limit_cache[v].count <= MaxBackground
    /\ LET r == Evaluate(rate_limit_cache, user_id, "tenant", customer_id,
                         requested_scopes, now)
       IN  /\ decision' = r.decision
           /\ audit_log' = r.logged
           /\ rate_limit_cache' = r.cache
    /\ request' = [user_id |-> user_id, customer_id |-> customer_id,
                   requested_scopes |-> requested_scopes]
    /\ UNCHANGED <<embedVars, indexVars, now, windowVars, concVars, pipelineVars>>

GateNext ==
    \E u \in UserIds, c \in RequestedCustomers, s \in RequestedScopeLists :
        EvaluateCall(u, c, s)

SpecGate == GateInit /\ [][GateNext]_vars

\* the customers whose row names user_id as assigned employee
AssignedSet(user_id) ==
    {CustomerTable[i][1] : i \in {j \in 1..Len(CustomerTable) : CustomerTable[j][2] = user_id}}

\* C3: every PolicyDecision with allowed = false, whichever denial path of
\* evaluate produced it, has max_k = 0, max_context_tokens = 0,
\* rate_limit_remaining = 0 and empty allowed_scopes and allowed_customer_ids.
C3_DeniedDecisionIsZero ==
    (Called /\ ~decision.allowed) =>
        /\ decision.max_k = 0
        /\ decision.max_context_tokens = 0
        /\ decision.rate_limit_remaining = 0
        /\ decision.allowed_scopes = <<>>
        /\ decision.allowed_customer_ids = <<>>

\* C3 witness: a known user asking for a scope of its role is denied because
\* its quota is used up.
C3_Witness ==
    /\ Called
    /\ ~decision.allowed
    /\ decision.decision_reason = "Rate limit exceeded"
    /\ request.user_id = "emp1"
    /\ request.requested_scopes = <<ADMIN_LAW>>
    /\ rate_limit_cache["emp1"].count = ROLE_LIMITS(ROLE_EMPLOYEE).rate_limit_per_hour

\* C4: every allowed PolicyDecision for an employee lists only customers
\* assigned to that employee, with and without a requested customer_id.
C4_EmployeeCustomersAssigned ==
    (/\ Called
     /\ decision.allowed
     /\ request.user_id \in DOMAIN UserTable
     /\ ~UserTable[request.user_id]) =>
        Elems(decision.allowed_customer_ids) \subseteq AssignedSet(request.user_id)

\* C4 witness: an employee asks for an unassigned customer together with
\* ADMIN_LAW and is allowed, without that customer.
C4_Witness ==
    /\ Called
    /\ decision.allowed
    /\ request.user_id = "emp1"
    /\ request.customer_id = "C123"
    /\ request.requested_scopes = <<ADMIN_LAW, CUSTOMER_DOC>>
    /\ decision.allowed_customer_ids = <<>>

-----------------------------------------------------------------------------
(* Specification SpecConc: process_query coroutines sharing one pipeline.  *)
(* process_query is an async def driven by one asyncio event loop; the    *)
(* code from its entry through _policy_gate (PolicyGate.evaluate,          *)
(* _check_rate_limit) contains no await, so the loop runs it as one step.  *)
(* The first suspension is the await of the generation call.               *)

\* number of coroutines that may be in flight together
NumCoroutines == 2

Slots == 1..NumCoroutines

\* seen_count: the counter value when the task was created (kept until the task runs);
\* saw_last: exactly one request was left in the actor's quota at that moment
IdleCoroutine ==
    [pc |-> "idle", user_id |-> None, seen_count |-> 0, saw_last |-> FALSE, passed |-> FALSE]

\* the role _get_user_info gives a user with a row
RoleOf(u) == IF UserTable[u] THEN ROLE_ADMIN ELSE ROLE_EMPLOYEE

ConcInit ==
    /\ rate_limit_cache = <<>>
    /\ now = 0
    /\ request = NoRequest
    /\ decision = NoDecision
    /\ audit_log = <<>>
    /\ IndexIdle
    /\ EmbedIdle
    /\ WindowIdle
    /\ co = [r \in Slots |-> IdleCoroutine]
    /\ ready = <<>>
    /\ QueryIdle
    /\ HybridIdle
    /\ UnitIdle

\* a caller creates the task for process_query(user_id=u); the task has not run yet
Submit(r, u) ==
    /\ co[r].pc = "idle"
    /\ \A v \in DOMAIN rate_limit_cache \ {u} :
            rate_limit_cache[v].count <= MaxBackground
    /\ LET seen == RateWindow(rate_limit_cache, u, now).count IN
       co' = [co EXCEPT ![r] =
                [pc |-> "pending", user_id |-> u, seen_count |-> seen,
                 saw_last |-> (seen = ROLE_LIMITS(RoleOf(u)).rate_limit_per_hour - 1),
                 passed |-> FALSE]]
    /\ ready' = Append(ready, r)
    /\ UNCHANGED <<embedVars, indexVars, gateVars, windowVars, pipelineVars>>

\* mutant: the gate works on the counter value read when the task was created
GateInputStale(r) ==
    IF co[r].user_id \in DOMAIN rate_limit_cache
    THEN [rate_limit_cache EXCEPT ![co[r].user_id].count = co[r].seen_count]
    ELSE rate_limit_cache

\* the cache _check_rate_limit reads when coroutine r reaches it: self._rate_limit_cache
GateInput(r) == rate_limit_cache

\* the event loop runs coroutine r from its entry to its first suspension:
\* _policy_gate, then either PermissionError or the pipeline up to generation
RunToFirstAwait(r) ==
    /\ co[r].pc = "pending"
    /\ ready /= <<>> /\ Head(ready) = r
    /\ ready' = Tail(ready)
    /\ LET res == Evaluate(GateInput(r), co[r].user_id, "tenant", None,
                           <<ADMIN_LAW, CUSTOMER_DOC>>, now)
       IN  /\ decision' = res.decision
           /\ audit_log' = res.logged
           /\ rate_limit_cache' = res.cache
           /\ co' = [co EXCEPT ![r].pc = IF res.decision.allowed THEN "generating"
                                          ELSE "denied",
                               ![r].seen_count = 0,
                               ![r].passed = res.decision.allowed]
    /\ request' = [user_id |-> co[r].user_id, customer_id |-> None,
                   requested_scopes |-> <<ADMIN_LAW, CUSTOMER_DOC>>]
    /\ UNCHANGED <<embedVars, indexVars, now, windowVars, pipelineVars>>

\* the generation call returns and process_query runs to its return
Resume(r) ==
    /\ co[r].pc = "generating"
    /\ co' = [co EXCEPT ![r] = IdleCoroutine]
    /\ UNCHANGED <<embedVars, indexVars, gateVars, windowVars, ready, pipelineVars>>

\* the caller catches the PermissionError; the slot is free again
Return(r) ==
    /\ co[r].pc = "denied"
    /\ co' = [co EXCEPT ![r] = IdleCoroutine]
    /\ UNCHANGED <<embedVars, indexVars, gateVars, windowVars, ready, pipelineVars>>

ConcNext ==
    \E r \in Slots :
        \/ \E u \in DOMAIN UserTable : Submit(r, u)
        \/ RunToFirstAwait(r)
        \/ Resume(r)
        \/ Return(r)

SpecConc == ConcInit /\ [][ConcNext]_vars

\* coroutine r was created when exactly one request was left in its actor's quota
SawLastSlot(r) == co[r].saw_last

\* coroutine r has been through the gate
Gated(r) == co[r].pc \in {"generating", "denied"}

-----------------------------------------------------------------------------
(* Specification SpecWindow: one actor's requests against the clock *)

\* number of clock advances in one behaviour
MaxTicks == 2

\* number of requests made before the clock first advances
MaxEarly == 1

\* the amounts by which the clock advances between requests
TickSteps == {1, WINDOW_SECONDS}

\* the actor whose requests are followed
WindowCaller == "emp1"

WindowInit ==
    /\ rate_limit_cache = <<>>
    /\ now = 0
    /\ request = NoRequest
    /\ decision = NoDecision
    /\ audit_log = <<>>
    /\ IndexIdle
    /\ EmbedIdle
    /\ allowed_log = <<>>
    /\ ticks = 0
    /\ ConcIdle
    /\ QueryIdle
    /\ HybridIdle
    /\ UnitIdle

\* allowed_log after one more allowed request at time t
Logged(log, t) == (t :> (IF t \in DOMAIN log THEN log[t] + 1 ELSE 1)) @@ log

\* one call of PolicyGate.evaluate by WindowCaller at the current time
WindowRequest(requested_scopes) ==
    /\ ticks = 0 => CountOf(rate_limit_cache, WindowCaller) < MaxEarly
    /\ LET r == Evaluate(rate_limit_cache, WindowCaller, "tenant", None,
                         requested_scopes, now)
       IN  /\ decision' = r.decision
           /\ audit_log' = r.logged
           /\ rate_limit_cache' = r.cache
           /\ allowed_log' = IF r.decision.allowed
                             THEN Logged(allowed_log, now)
                             ELSE allowed_log
    /\ request' = [user_id |-> WindowCaller, customer_id |-> None,
                   requested_scopes |-> requested_scopes]
    /\ UNCHANGED <<embedVars, indexVars, now, ticks, concVars, pipelineVars>>

\* time passes between two requests; the clock is followed from the actor's
\* first request on
Tick(d) ==
    /\ ticks < MaxTicks
    /\ WindowCaller \in DOMAIN rate_limit_cache
    /\ now' = now + d
    /\ ticks' = ticks + 1
    /\ UNCHANGED <<embedVars, indexVars, rate_limit_cache, request, decision, audit_log, allowed_log, concVars,
                   pipelineVars>>

WindowNext ==
    \/ WindowRequest(<<ADMIN_LAW>>)
    \/ \E d \in TickSteps : Tick(d)

SpecWindow == WindowInit /\ [][WindowNext]_vars

RECURSIVE SumLog(_, _)
SumLog(log, times) ==
    IF times = {} THEN 0
    ELSE LET t == CHOOSE x \in times : TRUE
         IN  log[t] + SumLog(log, times \ {t})

\* number of requests allowed at times in [w, w + 3600)
AllowedInWindow(w) ==
    SumLog(allowed_log, {t \in DOMAIN allowed_log : w <= t /\ t < w + WINDOW_SECONDS})

\* C5: in any window of 3600 seconds the gate allows at most
\* rate_limit_per_hour requests of one actor, and a request denied for the
\* rate limit carries rate_limit_remaining = 0.
C5_AtMostLimitPerWindow ==
    /\ \A w \in DOMAIN allowed_log :
            AllowedInWindow(w) <= ROLE_LIMITS(ROLE_EMPLOYEE).rate_limit_per_hour
    /\ (Called /\ decision.decision_reason = "Rate limit exceeded") =>
            decision.rate_limit_remaining = 0

-----------------------------------------------------------------------------
(* Specification SpecQuery: calls of RAGService.query, one at a time, on a *)
(* service that has an enhanced pipeline and a Qdrant store               *)

\* at most this many calls of query in one behaviour
MaxQueries == 2

\* user_id arguments of query: Optional[str]
QueryUsers == UserIds \cup {None}

\* the words of "What is the materiality threshold methodology?", lower-cased
MaterialityQuestion == {"what", "is", "the", "materiality", "threshold", "methodology"}

\* question arguments of query: the keyword lists they match
Questions ==
    { {}, {"planning"}, {"contract"}, {"contract", "legal"},
      MatchedLists(MaterialityQuestion) }

\* one slot of points for the search of each customer of the gate's list
CustomerSlots == 1..Len(CustomerTable)

QueryInit ==
    /\ rate_limit_cache = <<>>
    /\ now = 0
    /\ request = NoRequest
    /\ decision = NoDecision
    /\ audit_log = <<>>
    /\ IndexIdle
    /\ EmbedIdle
    /\ WindowIdle
    /\ ConcIdle
    /\ QueryIdle
    /\ HybridIdle
    /\ UnitIdle

\* RAGService.query is called: the choice between the enhanced pipeline and
\* the basic one
QueryCall(question, customer_id, include_admin_laws, include_customer_docs, user_id) ==
    /\ qpc \in {"idle", "returned"}
    /\ queries < MaxQueries
    /\ queries' = queries + 1
    /\ qargs' = [question |-> question, customer_id |-> customer_id,
                 include_admin_laws |-> include_admin_laws,
                 include_customer_docs |-> include_customer_docs,
                 owner_id |-> None,
                 tenant_id |-> IF user_id = None THEN None ELSE "tenant",
                 user_id |-> user_id]
    /\ qpc' = IF Truthy(qargs'.tenant_id) /\ Truthy(user_id)
              THEN "process_query" ELSE "basic_query"
    /\ policy_result' = NoPolicyResult
    /\ query_plan' = RouteAndPlan({})
    /\ evidence_results' = NoEvidence
    /\ context_docs' = <<>>
    /\ merged_evidence' = <<>>
    /\ searches' = <<>>
    /\ generations' = 0
    /\ outcome' = "none"
    /\ UNCHANGED <<embedVars, indexVars, gateVars, windowVars, concVars, hybridVars, unitVars>>

\* process_query from its entry to the call of _retrieve_evidence; its
\* PermissionError is caught by the except clause of query
ProcessQuery ==
    /\ qpc = "process_query"
    /\ LET scopes == ScopesOf(qargs.include_admin_laws, qargs.include_customer_docs)
           r == Evaluate(rate_limit_cache, qargs.user_id, qargs.tenant_id,
                         qargs.customer_id, scopes, now)
           result == PolicyGateResultOf(r.decision)
       IN  /\ decision' = r.decision
           /\ audit_log' = r.logged
           /\ rate_limit_cache' = r.cache
           /\ request' = [user_id |-> qargs.user_id, customer_id |-> qargs.customer_id,
                          requested_scopes |-> scopes]
           /\ policy_result' = result
           /\ IF result.allowed_collections = <<>>
              THEN /\ qpc' = "basic_query"
                   /\ UNCHANGED query_plan
              ELSE /\ qpc' = "retrieve_evidence"
                   /\ query_plan' = RouteAndPlan(qargs.question)
    /\ UNCHANGED <<embedVars, indexVars, now, windowVars, concVars, hybridVars, unitVars, qargs, evidence_results,
                   context_docs, merged_evidence, searches, generations, outcome,
                   queries>>

\* _retrieve_evidence; an exception of the embedding call leaves process_query
\* and is caught by the except clause of query
RetrieveEvidenceStep(embedded, admin_avail, avail) ==
    /\ qpc = "retrieve_evidence"
    /\ IF embedded
       THEN LET r == RetrieveEvidence(query_plan, policy_result, admin_avail, avail)
            IN  /\ evidence_results' = r.results
                /\ searches' = searches \o r.searches
                /\ qpc' = "generate_response"
       ELSE /\ qpc' = "basic_query"
            /\ UNCHANGED <<embedVars, indexVars, evidence_results, searches>>
    /\ UNCHANGED <<embedVars, indexVars, gateVars, windowVars, concVars, hybridVars, unitVars, qargs, policy_result,
                   query_plan, context_docs, merged_evidence, generations, outcome,
                   queries>>

\* process_query from _merge_and_dedupe to its return, and the return of query
GenerateResponse ==
    /\ qpc = "generate_response"
    /\ merged_evidence' = MergeAndDedupe(evidence_results)
    /\ generations' = generations + 1
    /\ outcome' = "answer"
    /\ qpc' = "returned"
    /\ UNCHANGED <<embedVars, indexVars, gateVars, windowVars, concVars, hybridVars, unitVars, qargs, policy_result,
                   query_plan, evidence_results, context_docs, searches, queries>>

\* _basic_query up to the generation call; an exception of the embedding call
\* leaves query
BasicQuery(embedded, admin_avail, customer_avail) ==
    /\ qpc = "basic_query"
    /\ IF embedded
       THEN LET r == SearchQdrantDocuments(qargs.customer_id, qargs.include_admin_laws,
                                           qargs.include_customer_docs, qargs.owner_id,
                                           TOP_K, admin_avail, customer_avail)
            IN  /\ context_docs' = r.results
                /\ searches' = searches \o r.searches
                /\ qpc' = "generate_answer"
                /\ UNCHANGED outcome
       ELSE /\ qpc' = "returned"
            /\ outcome' = "error"
            /\ UNCHANGED <<embedVars, indexVars, context_docs, searches>>
    /\ UNCHANGED <<embedVars, indexVars, gateVars, windowVars, concVars, hybridVars, unitVars, qargs, policy_result,
                   query_plan, evidence_results, merged_evidence, generations, queries>>

\* _generate_answer and the return of _basic_query
GenerateAnswer ==
    /\ qpc = "generate_answer"
    /\ generations' = generations + 1
    /\ outcome' = "answer"
    /\ qpc' = "returned"
    /\ UNCHANGED <<embedVars, indexVars, gateVars, windowVars, concVars, hybridVars, unitVars, qargs, policy_result,
                   query_plan, evidence_results, context_docs, merged_evidence,
                   searches, queries>>

QueryNext ==
    \/ \E question \in Questions, customer_id \in RequestedCustomers,
          include_admin_laws \in BOOLEAN, include_customer_docs \in BOOLEAN,
          user_id \in QueryUsers :
            QueryCall(question, customer_id, include_admin_laws,
                      include_customer_docs, user_id)
    \/ ProcessQuery
    \/ \E embedded \in BOOLEAN, admin_avail \in 0..MaxHits,
          avail \in [CustomerSlots -> 0..MaxHits] :
            RetrieveEvidenceStep(embedded, admin_avail, avail)
    \/ GenerateResponse
    \/ \E embedded \in BOOLEAN, admin_avail \in 0..MaxHits,
          customer_avail \in 0..MaxHits :
            BasicQuery(embedded, admin_avail, customer_avail)
    \/ GenerateAnswer

SpecQuery == QueryInit /\ [][QueryNext]_vars

\* the gate has denied the query in progress
GateDenied ==
    /\ policy_result.decision_reason /= "not evaluated"
    /\ policy_result.allowed_collections = <<>>

\* C1: when the Policy Gate denies a request, the query issues no vector
\* search and no generation call, and what the caller gets is not an answer.
C1_DeniedQueryStops ==
    GateDenied =>
        /\ searches = <<>>
        /\ generations = 0
        /\ outcome /= "answer"

\* the caller of the query in progress is an employee who is not assigned to
\* the customer the query names
UnassignedEmployeeQuery ==
    /\ qargs.user_id \in DOMAIN UserTable
    /\ ~UserTable[qargs.user_id]
    /\ Truthy(qargs.customer_id)
    /\ qargs.customer_id \notin AssignedSet(qargs.user_id)

\* C2: for an employee who is not assigned to customer C and asks with
\* customer_id = C, evaluate returns no allowed decision that contains C, and
\* no search of the query, fallback included, filters on customer_id = C.
C2_NoSearchForUnassignedCustomer ==
    UnassignedEmployeeQuery =>
        /\ (policy_result.decision_reason /= "not evaluated" /\ decision.allowed) =>
                ~InList(qargs.customer_id, decision.allowed_customer_ids)
        /\ \A i \in 1..Len(searches) : searches[i].customer_id /= qargs.customer_id

\* the searches _retrieve_evidence issued for a scope
EnhancedSearches(scope) ==
    {i \in 1..Len(searches) : searches[i].by = "enhanced" /\ searches[i].scope = scope}

\* C7: _retrieve_evidence returns per scope at most the plan's budget of
\* candidates, the customer budget counting all allowed customers together,
\* and issues no search for a scope whose budget is zero.
C7_CandidatesWithinBudget ==
    /\ Len(evidence_results.admin_law) <= query_plan.admin_law_budget
    /\ Len(evidence_results.customer_docs) <= query_plan.customer_doc_budget
    /\ Len(evidence_results.chat_memory) <= query_plan.chat_memory_budget
    /\ query_plan.admin_law_budget = 0 => EnhancedSearches(ADMIN_LAW) = {}
    /\ query_plan.customer_doc_budget = 0 => EnhancedSearches(CUSTOMER_DOC) = {}

-----------------------------------------------------------------------------
(* Specification SpecHybrid: calls of HybridRAGService.query and           *)
(* evidence_only, one at a time                                            *)

\* the planner returns at most this many sub-queries
MaxSubqueries == 2

\* owner_id fields of a HybridRAGQuery
HybridOwners == {None, "emp1"}

\* mode fields of a HybridRAGQuery
HybridModes == {"hybrid", "lightrag"}

\* the subqueries lists _build_query_plan can return: the planner's non-empty
\* strings, or the question itself, which may be empty
SubqueryLists ==
    {<<"">>} \cup UNION {[1..n -> {"subquery"}] : n \in 1..MaxSubqueries}

HybridInit ==
    /\ rate_limit_cache = <<>>
    /\ now = 0
    /\ request = NoRequest
    /\ decision = NoDecision
    /\ audit_log = <<>>
    /\ IndexIdle
    /\ EmbedIdle
    /\ WindowIdle
    /\ ConcIdle
    /\ QueryIdle
    /\ HybridIdle
    /\ UnitIdle

\* query or evidence_only from its entry to the call of _retrieve_multi, whose
\* first statement returns [] in mode lightrag
HybridCall(method, customer_id, owner_id, include_admin_laws, include_customer_docs, mode, subqueries) ==
    /\ hpc \in {"idle", "returned"}
    /\ hq' = [method |-> method, customer_id |-> customer_id, owner_id |-> owner_id,
              include_admin_laws |-> include_admin_laws,
              include_customer_docs |-> include_customer_docs, mode |-> mode]
    /\ policy' = HybridPolicyGate(owner_id, customer_id, include_admin_laws,
                                  include_customer_docs)
    /\ router' = RouteQuestion(customer_id, owner_id, include_admin_laws,
                               include_customer_docs)
    /\ plan' = [subqueries |-> subqueries]
    /\ sq' = 1
    /\ merged' = <<>>
    /\ retrieved' = <<>>
    /\ hits' = {}
    /\ hsearches' = <<>>
    /\ hpc' = IF mode = "lightrag" THEN "rerank" ELSE "retrieve_multi"
    /\ UNCHANGED <<embedVars, indexVars, gateVars, windowVars, concVars, queryVars, unitVars>>

\* _retrieve_multi: the hit lists the searches of one sub-query can return
AdminHits ==
    IF router.include_admin_laws
    THEN SearchResults(BuildFilter(ADMIN_LAW, None, None), RETRIEVE_K)
    ELSE {<<>>}

CustomerHits ==
    IF router.include_customer_docs /\ Truthy(policy.customer_id)
    THEN SearchResults(BuildFilter(CUSTOMER_DOC, policy.customer_id,
                                   policy.filters.owner_id), RETRIEVE_K)
    ELSE {<<>>}

\* _retrieve_multi: one round of the loop over subqueries[:6]
RetrieveSubquery ==
    /\ hpc = "retrieve_multi"
    /\ sq <= Len(Take(plan.subqueries, 6))
    /\ sq' = sq + 1
    /\ IF plan.subqueries[sq] = ""
       THEN UNCHANGED <<embedVars, indexVars, merged, hits, hsearches>>
       ELSE \E admin_found \in AdminHits, customer_found \in CustomerHits :
            LET admin == NormalizeQdrantHits(admin_found, ADMIN_LAW)
                customer == NormalizeQdrantHits(customer_found, CUSTOMER_DOC)
            IN  /\ merged' = MergeHits(MergeHits(merged, admin), customer)
                /\ hits' = hits \cup Elems(admin) \cup Elems(customer)
                /\ hsearches' = hsearches
                        \o (IF router.include_admin_laws
                            THEN <<SearchCall("hybrid", ADMIN_LAW, None, None,
                                              RETRIEVE_K)>>
                            ELSE <<>>)
                        \o (IF router.include_customer_docs /\ Truthy(policy.customer_id)
                            THEN <<SearchCall("hybrid", CUSTOMER_DOC, policy.customer_id,
                                              policy.filters.owner_id, RETRIEVE_K)>>
                            ELSE <<>>)
    /\ UNCHANGED <<embedVars, indexVars, gateVars, windowVars, concVars, queryVars, unitVars, hpc, hq, policy, router,
                   plan, retrieved>>

\* _retrieve_multi after the loop: sort and cut
RetrieveMultiReturn ==
    /\ hpc = "retrieve_multi"
    /\ sq > Len(Take(plan.subqueries, 6))
    /\ retrieved' = Take(SortByScore(Values(merged)), Max(RETRIEVE_K, 30))
    /\ hpc' = "rerank"
    /\ UNCHANGED <<embedVars, indexVars, gateVars, windowVars, concVars, queryVars, unitVars, hq, policy, router, plan,
                   sq, merged, hits, hsearches>>

\* query or evidence_only from _rerank_llm to its return
HybridReturn ==
    /\ hpc = "rerank"
    /\ hpc' = "returned"
    /\ UNCHANGED <<embedVars, indexVars, gateVars, windowVars, concVars, queryVars, unitVars, hq, policy, router, plan,
                   sq, merged, retrieved, hits, hsearches>>

HybridNext ==
    \/ \E method \in {"query", "evidence_only"}, customer_id \in RequestedCustomers,
          owner_id \in HybridOwners, include_admin_laws \in BOOLEAN,
          include_customer_docs \in BOOLEAN, mode \in HybridModes,
          subqueries \in SubqueryLists :
            HybridCall(method, customer_id, owner_id, include_admin_laws,
                       include_customer_docs, mode, subqueries)
    \/ RetrieveSubquery
    \/ RetrieveMultiReturn
    \/ HybridReturn

SpecHybrid == HybridInit /\ [][HybridNext]_vars

\* C8: query and evidence_only search a scope only if it is in the
\* allowed_scopes of the policy computed for the request.
C8_SearchedScopesAllowed ==
    \A i \in 1..Len(hsearches) : InList(hsearches[i].scope, policy.allowed_scopes)

\* _retrieve_multi has returned its fused list
Fused == hpc \in {"rerank", "returned"} /\ hq.mode /= "lightrag"

\* the hits _retrieve_multi has seen for the chunk of hit h
SameChunk(h) == {x \in hits : x.file_id = h.file_id /\ x.chunk_index = h.chunk_index}

\* the entries of the fused list for the chunk of hit h
FusedFor(h) ==
    {i \in 1..Len(retrieved) :
        retrieved[i].file_id = h.file_id /\ retrieved[i].chunk_index = h.chunk_index}

\* C9: a chunk for which fusion received several candidates has exactly one
\* candidate in the output, with the maximum of the input scores.
C9_OneCandidateWithMaxScore ==
    Fused =>
        \A h \in hits :
            Cardinality(SameChunk(h)) > 1 =>
                /\ Cardinality(FusedFor(h)) = 1
                /\ \A i \in FusedFor(h) :
                        /\ \A x \in SameChunk(h) : retrieved[i].score >= x.score
                        /\ \E x \in SameChunk(h) : retrieved[i].score = x.score

\* C10: _retrieve_multi collapses only hits of one chunk: every chunk among
\* the hits, up to the result limit, has an entry in the fused list.
C10_DifferentChunksKept ==
    (Fused /\ Cardinality(hits) <= Max(RETRIEVE_K, 30)) =>
        \A h \in hits : FusedFor(h) /= {}

-----------------------------------------------------------------------------
(* Specification SpecFusion: _merge_and_dedupe applied to a dict of        *)
(* candidates, to its own output, and to the dict with duplicates appended *)

\* at most this many candidates in one list of the dict
MaxListLen == 2

\* at most this many duplicates appended
MaxDups == 1

\* a candidate as _retrieve_evidence builds it
Candidate(file_id, chunk_index, score) ==
    [file_id |-> file_id, chunk_index |-> chunk_index, score |-> score]

\* the candidates the lists are drawn from: one chunk with two scores, a second
\* chunk of the same file, a chunk of another file
FusionCandidates ==
    { Candidate("doc1", 4, 81), Candidate("doc1", 4, 77),
      Candidate("doc1", 0, 77), Candidate("doc2", 0, 81) }

\* lists of at most n elements of S
ListsOf(S, n) == UNION {[1..k -> S] : k \in 0..n}

\* evidence_results as _retrieve_evidence returns it; chat_memory is always empty
EvidenceOf(admin_law, customer_docs) ==
    [admin_law |-> admin_law, customer_docs |-> customer_docs, chat_memory |-> <<>>]

\* the candidates of a dict, in the order _merge_and_dedupe reads them
AllEvidence(results) == results.admin_law \o results.customer_docs \o results.chat_memory

\* the dict with the list d appended behind its last candidate
AppendDuplicates(results, d) == [results EXCEPT !.chat_memory = @ \o d]

NoFusion == [once |-> <<>>, again |-> <<>>, appended |-> <<>>]

FusionInit ==
    /\ rate_limit_cache = <<>>
    /\ now = 0
    /\ request = NoRequest
    /\ decision = NoDecision
    /\ audit_log = <<>>
    /\ IndexIdle
    /\ EmbedIdle
    /\ WindowIdle
    /\ ConcIdle
    /\ QueryIdle
    /\ HybridIdle
    /\ fn = "none"
    /\ returns = NoFusion
    /\ \E a \in ListsOf(FusionCandidates, MaxListLen),
          c \in ListsOf(FusionCandidates, MaxListLen) :
            \E d \in ListsOf(Elems(a \o c), MaxDups) :
                args = [evidence_results |-> EvidenceOf(a, c), duplicates |-> d]

\* _merge_and_dedupe(evidence_results)
MergeOnce ==
    /\ fn = "none"
    /\ returns' = [returns EXCEPT !.once = MergeAndDedupe(args.evidence_results)]
    /\ fn' = "once"
    /\ UNCHANGED <<embedVars, indexVars, gateVars, windowVars, concVars, queryVars, hybridVars, args>>

\* _merge_and_dedupe applied to the list it returned, as the only list of a dict
MergeAgain ==
    /\ fn = "once"
    /\ returns' = [returns EXCEPT !.again = MergeAndDedupe(EvidenceOf(returns.once, <<>>))]
    /\ fn' = "again"
    /\ UNCHANGED <<embedVars, indexVars, gateVars, windowVars, concVars, queryVars, hybridVars, args>>

\* _merge_and_dedupe applied to the dict with the duplicates appended
MergeAppended ==
    /\ fn = "again"
    /\ returns' = [returns EXCEPT !.appended =
                        MergeAndDedupe(AppendDuplicates(args.evidence_results,
                                                        args.duplicates))]
    /\ fn' = "appended"
    /\ UNCHANGED <<embedVars, indexVars, gateVars, windowVars, concVars, queryVars, hybridVars, args>>

FusionNext == MergeOnce \/ MergeAgain \/ MergeAppended

SpecFusion == FusionInit /\ [][FusionNext]_vars

\* the (file_id, chunk_index, score) of the candidates of a list
Triples(l) == {<<l[i].file_id, l[i].chunk_index, l[i].score>> : i \in 1..Len(l)}

\* two lists hold the same candidates with the same scores, each as often
SameCandidates(a, b) == Triples(a) = Triples(b) /\ Len(a) = Len(b)

\* C11: _merge_and_dedupe applied to its own output, or to the input with
\* exact duplicates of present candidates appended, gives the same
\* (file_id, chunk_index) candidates with the same scores as applied once.
C11_FusionIdempotent ==
    /\ fn \in {"again", "appended"} => SameCandidates(returns.again, returns.once)
    /\ fn = "appended" => SameCandidates(returns.appended, returns.once)

\* an input with one chunk under two scores and a duplicate appended has been
\* fused in all three ways
C11_Witness ==
    /\ fn = "appended"
    /\ args.duplicates /= <<>>
    /\ Len(returns.once) < Len(AllEvidence(args.evidence_results))
    /\ \E x, y \in Elems(AllEvidence(args.evidence_results)) :
            x.file_id = y.file_id /\ x.chunk_index = y.chunk_index /\ x.score /= y.score

-----------------------------------------------------------------------------
(* Specification SpecFilter: _filter_noise applied to a candidate list *)

\* at most this many candidates in the list handed to _filter_noise
MaxEvidence == 4

\* the candidates the list is drawn from
FilterCandidates ==
    {[file_id |-> f, score |-> s, text |-> t] :
        f \in {"doc1", "doc2"}, s \in Scores, t \in {"signatory", "other"}}

\* the intents of the plans handed to _filter_noise
FilterIntents == {"contract_signatories", "smalltalk", "legal_subsequent_events"}

FilterInit ==
    /\ rate_limit_cache = <<>>
    /\ now = 0
    /\ request = NoRequest
    /\ decision = NoDecision
    /\ audit_log = <<>>
    /\ IndexIdle
    /\ EmbedIdle
    /\ WindowIdle
    /\ ConcIdle
    /\ QueryIdle
    /\ HybridIdle
    /\ fn = "none"
    /\ returns = <<>>
    /\ \E evidence \in ListsOf(FilterCandidates, MaxEvidence), intent \in FilterIntents :
            args = [evidence |-> evidence, intent |-> intent]

\* _filter_noise(evidence, plan)
FilterNoiseCall ==
    /\ fn = "none"
    /\ returns' = FilterNoise(args.evidence, args.intent)
    /\ fn' = "filtered"
    /\ UNCHANGED <<embedVars, indexVars, gateVars, windowVars, concVars, queryVars, hybridVars, args>>

FilterNext == FilterNoiseCall

SpecFilter == FilterInit /\ [][FilterNext]_vars

\* number of candidates of a list with the given file_id
OfFile(l, file_id) == Cardinality({i \in 1..Len(l) : l[i].file_id = file_id})

\* C12: the output of _filter_noise holds at most 2 candidates of one file_id
\* for the contract-signatories intent and at most 3 for every other intent.
C12_PerFileCap ==
    fn = "filtered" =>
        \A i \in 1..Len(returns) :
            OfFile(returns, returns[i].file_id)
                <= (IF args.intent = "contract_signatories" THEN 2 ELSE 3)

\* a contract-signatories list with more than 2 keyword candidates of one
\* file has been filtered and the file keeps exactly 2
C12_Witness ==
    /\ fn = "filtered"
    /\ args.intent = "contract_signatories"
    /\ OfFile(Narrowed(args.evidence), "doc1") > 2
    /\ OfFile(returns, "doc1") = 2

-----------------------------------------------------------------------------
(* Specification SpecRerank: the two rerankers applied to a candidate list *)
(* sorted by decreasing score, as the fusion before them returns it       *)

\* at most this many candidates handed to a reranker
MaxCandidates == 11

\* at most this many index tokens in the reply of the reranking model
MaxReply == 2

\* final_k = min(top_k, 5) with top_k >= 1
FinalKs == 1..5

\* the i-th candidate of the list handed to a reranker
RankedCandidate(i) == [file_id |-> "doc1", chunk_index |-> i, score |-> 100 - i]

\* the first n candidates, by decreasing score
RankedCandidates(n) == [i \in 1..n |-> RankedCandidate(i)]

\* index tokens of a reply: below the range, in it, above it
IndexTokens == {0, 1, 2, 99}

RerankReplies ==
    {RerankReply("raises", <<>>), RerankReply("empty", <<>>), RerankReply("word", <<>>)}
        \cup {RerankReply(kind, l) : kind \in {"indices", "object"},
                                      l \in ListsOf(IndexTokens, MaxReply)}

NoRerank == [llm |-> <<>>, evidence |-> <<>>]

RerankInit ==
    /\ rate_limit_cache = <<>>
    /\ now = 0
    /\ request = NoRequest
    /\ decision = NoDecision
    /\ audit_log = <<>>
    /\ IndexIdle
    /\ EmbedIdle
    /\ WindowIdle
    /\ ConcIdle
    /\ QueryIdle
    /\ HybridIdle
    /\ fn = "none"
    /\ returns = NoRerank
    /\ \E n \in 0..MaxCandidates, k \in FinalKs, reply \in RerankReplies :
            args = [candidates |-> RankedCandidates(n), final_k |-> k, reply |-> reply]

\* _rerank_llm(question, candidates, final_k)
RerankLlmCall ==
    /\ fn = "none"
    /\ returns' = [returns EXCEPT !.llm = RerankLlm(args.candidates, args.final_k,
                                                    args.reply)]
    /\ fn' = "rerank_llm"
    /\ UNCHANGED <<embedVars, indexVars, gateVars, windowVars, concVars, queryVars, hybridVars, args>>

\* _rerank_evidence(question, evidence, plan)
RerankEvidenceCall ==
    /\ fn = "none"
    /\ returns' = [returns EXCEPT !.evidence = RerankEvidence(args.candidates,
                                                              args.reply)]
    /\ fn' = "rerank_evidence"
    /\ UNCHANGED <<embedVars, indexVars, gateVars, windowVars, concVars, queryVars, hybridVars, args>>

RerankNext == RerankLlmCall \/ RerankEvidenceCall

SpecRerank == RerankInit /\ [][RerankNext]_vars

\* the reply gives _rerank_llm nothing to select
NoSelection ==
    \/ args.reply.kind \in {"raises", "empty", "word", "object"}
    \/ InRange(args.reply.indices, 1, Len(args.candidates)) = <<>>

\* a list is in decreasing order of score
Descending(l) == \A i, j \in 1..Len(l) : i < j => l[i].score >= l[j].score

\* C13: when the reranking call raises or its reply holds no valid index,
\* _rerank_llm returns exactly min(final_k, number of candidates) candidates,
\* the highest-scored ones, in decreasing order of score.
C13_RerankFallback ==
    (fn = "rerank_llm" /\ NoSelection) =>
        /\ Len(returns.llm) = Min(args.final_k, Len(args.candidates))
        /\ returns.llm = Take(args.candidates, args.final_k)
        /\ Descending(returns.llm)

\* _rerank_llm has fallen back on a list longer than final_k, after a raise
C13_Witness ==
    /\ fn = "rerank_llm"
    /\ args.reply.kind = "raises"
    /\ Len(args.candidates) > args.final_k
    /\ Len(returns.llm) = args.final_k

\* no candidate occurs twice in a list
NoRepeat(l) == \A i, j \in 1..Len(l) : i /= j => l[i] /= l[j]

\* the candidates of out behind the first n are the highest-scored of those
\* the first n left over
Backfilled(out, n, candidates) ==
    \A i \in (n + 1)..Len(out) :
        \A c \in Elems(candidates) \ Elems(out) : out[i].score >= c.score

\* number of distinct valid indices of a reply of the kind the reranker reads
ValidSelected(kind, hi) ==
    IF args.reply.kind = kind
    THEN Cardinality(Elems(InRange(args.reply.indices, 1, hi)))
    ELSE 0

\* C14: for every reply a reranker returns at most final_k candidates, none
\* twice, and fills up from the highest-scored candidates not selected when
\* the reply has fewer valid indices than final_k; final_k is 10 for
\* _rerank_evidence.
C14_RerankBounded ==
    /\ fn = "rerank_llm" =>
            /\ Len(returns.llm) <= args.final_k
            /\ NoRepeat(returns.llm)
            /\ Len(returns.llm) = Min(args.final_k, Len(args.candidates))
            /\ Backfilled(returns.llm, ValidSelected("indices", Len(args.candidates)),
                          args.candidates)
    /\ fn = "rerank_evidence" =>
            /\ Len(returns.evidence) <= 10
            /\ NoRepeat(returns.evidence)
            /\ Len(returns.evidence) = Min(10, Len(args.candidates))
            /\ Backfilled(returns.evidence, ValidSelected("object", Len(args.candidates)),
                          args.candidates)

-----------------------------------------------------------------------------
(* Specification SpecEvidence: _build_evidence_sql applied to a list of seeds *)

\* at most this many seeds handed to _build_evidence_sql
MaxSeeds == 3

\* a seed as _retrieve_multi leaves it, for a point without chunk_id
Seed(file_id, chunk_index, scope, text) ==
    LET it == [source |-> "qdrant", scope |-> scope, score |-> 81, chunk_id |-> None,
               file_id |-> file_id, chunk_index |-> chunk_index, filename |-> None,
               text |-> text]
    IN  it @@ [citation |-> FormatCitation(it)]

\* a seed of a point that carries the id of its row and nothing else
SeedById(chunk_id, scope, text) ==
    LET it == [source |-> "qdrant", scope |-> scope, score |-> 81, chunk_id |-> chunk_id,
               filename |-> None, text |-> text]
    IN  it @@ [citation |-> FormatCitation(it)]

\* the seeds: the chunks of the table, a chunk no longer in the table, a point
\* whose file_id is no UUID
Seeds ==
    { Seed("doc1", 0, CUSTOMER_DOC, "complete"),
      Seed("doc1", 1, CUSTOMER_DOC, "ragged"),
      Seed("doc1", 2, CUSTOMER_DOC, "complete"),
      Seed("doc1", 3, CUSTOMER_DOC, "ragged"),
      Seed("law1", 0, ADMIN_LAW, "complete"),
      Seed("law1", 1, ADMIN_LAW, ""),
      Seed("doc1", 9, CUSTOMER_DOC, "complete"),
      Seed("not-a-uuid", 0, CUSTOMER_DOC, "complete"),
      SeedById("d2", CUSTOMER_DOC, "complete") }

\* lists of distinct seeds
SeedLists == {l \in ListsOf(Seeds, MaxSeeds) : \A i, j \in 1..Len(l) : i /= j => l[i] /= l[j]}

\* the policy fields _build_evidence_sql reads
EvidencePolicies == [customer_id : {None, "C201", "C123"}, owner_id : {None, "emp1"}]

EvidenceInit ==
    /\ rate_limit_cache = <<>>
    /\ now = 0
    /\ request = NoRequest
    /\ decision = NoDecision
    /\ audit_log = <<>>
    /\ IndexIdle
    /\ EmbedIdle
    /\ WindowIdle
    /\ ConcIdle
    /\ QueryIdle
    /\ HybridIdle
    /\ fn = "none"
    /\ returns = <<>>
    /\ \E seeds \in SeedLists, pol \in EvidencePolicies, db \in BOOLEAN :
            args = [seeds |-> seeds, policy |-> pol, db |-> db]

\* _build_evidence_sql(seeds, policy)
BuildEvidenceSqlCall ==
    /\ fn = "none"
    /\ returns' = BuildEvidenceSql(args.seeds, args.policy, args.db)
    /\ fn' = "build_evidence_sql"
    /\ UNCHANGED <<embedVars, indexVars, gateVars, windowVars, concVars, queryVars, hybridVars, args>>

EvidenceNext == BuildEvidenceSqlCall

SpecEvidence == EvidenceInit /\ [][EvidenceNext]_vars

\* the pack was built from rows of the table
PackBuilt == fn = "build_evidence_sql" /\ args.db

RangeWithin(a, b) ==
    /\ b.chunk_index_range[1] <= a.chunk_index_range[1]
    /\ a.chunk_index_range[2] <= b.chunk_index_range[2]

-----------------------------------------------------------------------------
(* Specification SpecGeneration: the end of a query, from the generation *)
(* call on, and _grounding_check applied to a response                  *)

\* at most this many items in the evidence of a query
MaxPack == 2

\* evidence items, by their citation
PackItems == {[citation |-> c] : c \in {"doc1 chunk=0", "law1 chunk=0"}}

\* verdicts a grounding reply may hold
Verdicts ==
    { [grounded |-> TRUE, score |-> 100, issues |-> <<>>, suggestions |-> <<>>],
      [grounded |-> FALSE, score |-> 50, issues |-> <<"unsupported statement">>,
       suggestions |-> <<>>] }

NoVerdict == [grounded |-> TRUE, score |-> 0, issues |-> <<>>, suggestions |-> <<>>]

\* replies to the generation prompt
GenerationReplies ==
    {ModelReply(kind, "text", NoVerdict) : kind \in {"raises", "empty", "word", "object"}}

\* replies to the grounding prompt
GroundingReplies ==
    {ModelReply(kind, "text", NoVerdict) : kind \in {"raises", "empty", "word"}}
        \cup {ModelReply("object", content, NoVerdict) : content \in {"not_json", "not_object"}}
        \cup {ModelReply("object", "verdict", v) : v \in Verdicts}

\* response arguments of _grounding_check
Responses == {GenerateResponseOf(reply) : reply \in GenerationReplies}

GenerationInit ==
    /\ rate_limit_cache = <<>>
    /\ now = 0
    /\ request = NoRequest
    /\ decision = NoDecision
    /\ audit_log = <<>>
    /\ IndexIdle
    /\ EmbedIdle
    /\ WindowIdle
    /\ ConcIdle
    /\ QueryIdle
    /\ HybridIdle
    /\ fn = "none"
    /\ returns = <<>>
    /\ \E evidence \in ListsOf(PackItems, MaxPack), generation \in GenerationReplies,
          check \in GroundingReplies, response \in Responses :
            args = [evidence |-> evidence, generation |-> generation, check |-> check,
                    response |-> response]

\* process_query, steps 9 to 11
ProcessQueryTail ==
    /\ fn = "none"
    /\ returns' = ProcessQueryReturn(args.evidence, args.generation, args.check)
    /\ fn' = "process_query"
    /\ UNCHANGED <<embedVars, indexVars, gateVars, windowVars, concVars, queryVars, hybridVars, args>>

\* HybridRAGService.query, steps 4 and 5; generate_text returns a str or raises
HybridQueryTail ==
    /\ fn = "none"
    /\ args.generation.kind /= "object"
    /\ returns' = HybridQueryReturn(args.evidence, args.generation)
    /\ fn' = "hybrid_query"
    /\ UNCHANGED <<embedVars, indexVars, gateVars, windowVars, concVars, queryVars, hybridVars, args>>

\* _grounding_check(question, response, evidence_pack)
GroundingCheckCall ==
    /\ fn = "none"
    /\ returns' = GroundingCheck(args.response, args.check)
    /\ fn' = "grounding_check"
    /\ UNCHANGED <<embedVars, indexVars, gateVars, windowVars, concVars, queryVars, hybridVars, args>>

GenerationNext == ProcessQueryTail \/ HybridQueryTail \/ GroundingCheckCall

SpecGeneration == GenerationInit /\ [][GenerationNext]_vars

\* the generation call of the query has failed
GenerationFailed == fn \in {"process_query", "hybrid_query"} /\ args.generation.kind = "raises"

\* C17: when the generation call fails, process_query and HybridRAGService.query
\* raise nothing and return the apology as answer together with the evidence
\* gathered for the request.
C17_GenerationFailureRecovered ==
    GenerationFailed =>
        /\ ~returns.raised
        /\ returns.answer = Apology
        /\ fn = "process_query" =>
                /\ returns.evidence_pack = args.evidence
                /\ Len(returns.sources_used) = Len(args.evidence)
        /\ fn = "hybrid_query" => returns.context = args.evidence

\* the grounding check of a generated answer has failed: provider error, or a
\* reply that does not parse as a verdict object
CheckFailed ==
    /\ fn = "grounding_check"
    /\ args.response.success
    /\ ~(args.check.kind = "object" /\ args.check.content = "verdict")

-----------------------------------------------------------------------------
(* Specification SpecRetrieval: the retrieval step of both entry points with *)
(* vector searches that may raise                                           *)

\* the results of _policy_gate for the users and requests of a query
RetrievalGates ==
    {g \in {PolicyGateResultOf(Evaluate(<<>>, u, "tenant", c, s, 0).decision) :
                u \in UserIds, c \in RequestedCustomers, s \in RequestedScopeLists} :
        g.allowed_collections /= <<>>}

\* the outcomes of one search under a filter
SearchOutcomes(filt) ==
    {SearchOutcome(TRUE, <<>>)}
        \cup {SearchOutcome(FALSE, found) : found \in SearchResults(filt, RETRIEVE_K)}

\* the outcomes of the searches of one subquery
RoundsOf(pol) ==
    [admin : SearchOutcomes(BuildFilter(ADMIN_LAW, None, None)),
     customer : SearchOutcomes(BuildFilter(CUSTOMER_DOC, pol.customer_id,
                                           pol.filters.owner_id))]

RetrievalInit ==
    /\ rate_limit_cache = <<>>
    /\ now = 0
    /\ request = NoRequest
    /\ decision = NoDecision
    /\ audit_log = <<>>
    /\ IndexIdle
    /\ EmbedIdle
    /\ WindowIdle
    /\ ConcIdle
    /\ QueryIdle
    /\ HybridIdle
    /\ fn = "none"
    /\ returns = <<>>
    /\ \/ \E q \in Questions, gate \in RetrievalGates, admin_avail \in 0..MaxHits,
             avail \in [CustomerSlots -> 0..MaxHits], admin_raises \in BOOLEAN,
             raises \in [CustomerSlots -> BOOLEAN] :
                args = [entry |-> "process_query", plan |-> RouteAndPlan(q),
                        gate |-> gate, admin_avail |-> admin_avail, avail |-> avail,
                        admin_raises |-> admin_raises, raises |-> raises]
       \/ \E o \in HybridOwners, mode \in HybridModes, include_admin_laws \in BOOLEAN,
             include_customer_docs \in BOOLEAN, n \in 1..MaxSubqueries :
                \E rounds \in [1..n -> RoundsOf(HybridPolicyGate(o, "C201", TRUE, TRUE))] :
                    args = [entry |-> "hybrid_query", mode |-> mode,
                            policy |-> HybridPolicyGate(o, "C201", TRUE, TRUE),
                            include_admin_laws |-> include_admin_laws,
                            include_customer_docs |-> include_customer_docs,
                            rounds |-> rounds]

\* process_query, step 4: _retrieve_evidence
RetrieveEvidenceCall ==
    /\ fn = "none"
    /\ args.entry = "process_query"
    /\ returns' = RetrieveEvidenceGuarded(args.plan, args.gate, args.admin_avail,
                                          args.avail, args.admin_raises, args.raises)
    /\ fn' = "retrieve_evidence"
    /\ UNCHANGED <<embedVars, indexVars, gateVars, windowVars, concVars, queryVars, hybridVars, args>>

\* HybridRAGService.query: _retrieve_multi, whose exception leaves query
RetrieveMultiCall ==
    /\ fn = "none"
    /\ args.entry = "hybrid_query"
    /\ returns' = RetrieveMulti(args.rounds, args.policy, args.include_admin_laws,
                                args.include_customer_docs, args.mode)
    /\ fn' = "retrieve_multi"
    /\ UNCHANGED <<embedVars, indexVars, gateVars, windowVars, concVars, queryVars, hybridVars, args>>

RetrievalNext == RetrieveEvidenceCall \/ RetrieveMultiCall

SpecRetrieval == RetrievalInit /\ [][RetrievalNext]_vars

\* the searches _retrieve_evidence runs for the customers of the gate
CustomerSearchesRun ==
    IF InList(CUSTOMER_DOC, args.gate.allowed_scopes) /\ args.plan.customer_doc_budget > 0
    THEN 1..Len(args.gate.allowed_customer_ids)
    ELSE {}

\* the candidates of customer k in the results
DocsOfCustomer(k) ==
    {d \in Elems(returns.results.customer_docs) :
        d.customer_id = args.gate.allowed_customer_ids[k]}

\* a search of _retrieve_multi raises in some round
HybridSearchRaises ==
    /\ args.mode /= "lightrag"
    /\ \E i \in 1..Len(args.rounds) :
            \/ args.include_admin_laws /\ args.rounds[i].admin.raises
            \/ args.include_customer_docs /\ args.rounds[i].customer.raises

\* C19: a vector search that raises is skipped, the candidates of the other
\* searches are kept and no exception leaves the retrieval step, in
\* process_query and in HybridRAGService.query.
C19_FailingSearchSkipped ==
    /\ fn = "retrieve_evidence" =>
            /\ ~returns.raised
            /\ args.admin_raises => returns.results.admin_law = <<>>
            /\ \A k \in CustomerSearchesRun :
                    /\ args.raises[k] => DocsOfCustomer(k) = {}
                    /\ ~args.raises[k] => Cardinality(DocsOfCustomer(k)) >= Min(1, args.avail[k])
    /\ (fn = "retrieve_multi" /\ HybridSearchRaises) => ~returns.raised

-----------------------------------------------------------------------------
(* Specification SpecRoute: _route_and_plan applied to a question *)

\* at most this many words of the vocabulary in a question
MaxWords == 3

\* words of a question; dogovor stands for the Cyrillic keyword of the
\* signatories list, hello holds no keyword
Vocabulary ==
    {"lawsuit", "kam", "tcwg", "board", "materiality", "planning", "sample",
     "provide", "fraud", "revenue", "dogovor", "hello"}

RouteInit ==
    /\ rate_limit_cache = <<>>
    /\ now = 0
    /\ request = NoRequest
    /\ decision = NoDecision
    /\ audit_log = <<>>
    /\ IndexIdle
    /\ EmbedIdle
    /\ WindowIdle
    /\ ConcIdle
    /\ QueryIdle
    /\ HybridIdle
    /\ fn = "none"
    /\ returns = <<>>
    /\ \E words \in SUBSET Vocabulary :
            /\ Cardinality(words) <= MaxWords
            /\ args = [question |-> words]

\* _route_and_plan(question, conversation_state)
RouteAndPlanCall ==
    /\ fn = "none"
    /\ returns' = QueryPlanOf(args.question)
    /\ fn' = "route_and_plan"
    /\ UNCHANGED <<embedVars, indexVars, gateVars, windowVars, concVars, queryVars, hybridVars, args>>

RouteNext == RouteAndPlanCall

SpecRoute == RouteInit /\ [][RouteNext]_vars

\* the intent classes of the claim, highest priority first, with their lists
Priority ==
    << [list |-> "legal", intent |-> "legal_subsequent_events"],
       [list |-> "kam", intent |-> "kam"],
       [list |-> "tcwg", intent |-> "tcwg_communications"],
       [list |-> "planning", intent |-> "planning_materiality"],
       [list |-> "sampling", intent |-> "sampling"],
       [list |-> "pbc", intent |-> "pbc_waves"],
       [list |-> "forensic", intent |-> "forensic_red_flags"],
       [list |-> "cycle", intent |-> "cycle_deep_dive"] >>

\* the ranks of the classes of which the question contains a keyword
RanksMatched ==
    {i \in 1..Len(Priority) : Priority[i].list \in MatchedLists(args.question)}

\* C20: the intent is the class of highest priority among those matched, in
\* the order legal, KAM, TCWG, planning, sampling, PBC, forensic, cycle, and
\* smalltalk when the question holds no keyword of any class.
C20_IntentByPriority ==
    fn = "route_and_plan" =>
        /\ \A i \in RanksMatched :
                (\A j \in RanksMatched : i <= j) => returns.intent = Priority[i].intent
        /\ MatchedLists(args.question) = {} => returns.intent = "smalltalk"

\* a question with keywords of three classes got the intent of the first
C20_Witness ==
    /\ fn = "route_and_plan"
    /\ RanksMatched = {2, 4, 8}
    /\ returns.intent = "kam"

-----------------------------------------------------------------------------
(* The materiality question, in SpecQuery *)

\* process_query has planned the materiality question, asked with no
\* customer, with admin laws and without customer documents
MaterialityPlanned ==
    /\ qpc \in {"retrieve_evidence", "generate_response"}
    /\ qargs.question = MatchedLists(MaterialityQuestion)
    /\ qargs.customer_id = None
    /\ qargs.include_admin_laws
    /\ ~qargs.include_customer_docs

\* C21: for the materiality question with no customer, admin laws only, the
\* intent is planning/materiality, the customer-doc budget is 0 and at most
\* the admin-law budget, and no customer-scoped search is issued.
C21_MaterialityPlan ==
    MaterialityPlanned =>
        /\ query_plan.intent = "planning_materiality"
        /\ query_plan.customer_doc_budget = 0
        /\ query_plan.customer_doc_budget <= query_plan.admin_law_budget
        /\ \A i \in 1..Len(searches) : searches[i].scope /= CUSTOMER_DOC

-----------------------------------------------------------------------------
(* The tuple of an intent, in SpecRoute *)

\* what the branch of an intent assigns: budgets, strictness, standards and
\* patterns; a list the branch does not assign is empty
IntentTuple(intent) ==
    CASE intent = "contract_signatories" ->
            Plan(intent, 2, 8) @@ Hints("must_cite", <<>>, <<"signatories", "names", "roles">>)
      [] intent = "legal_subsequent_events" ->
            Plan(intent, 8, 3) @@ Hints("must_cite", <<"IAS 37", "IAS 10", "ISA 501">>,
                                        <<"legal_references", "dates", "amounts">>)
      [] intent = "kam" ->
            Plan(intent, 6, 6) @@ Hints("must_cite", <<"ISA 701">>,
                                        <<"materiality_indicators", "judgment_areas">>)
      [] intent = "tcwg_communications" ->
            Plan(intent, 4, 4) @@ Hints("helpful", <<"ISA 260", "ISA 580">>, <<>>)
      [] intent = "planning_materiality" ->
            Plan(intent, 7, 2) @@ Hints("must_cite", <<"ISA 320", "ISA 220">>,
                                        <<"amounts", "benchmarks", "percentages">>)
      [] intent = "sampling" ->
            Plan(intent, 6, 3) @@ Hints("must_cite", <<"ISA 530">>,
                                        <<"population_sizes", "sample_methods">>)
      [] intent = "pbc_waves" ->
            Plan(intent, 3, 6) @@ Hints("helpful", <<>>, <<"document_types", "formats">>)
      [] intent = "forensic_red_flags" ->
            Plan(intent, 8, 4) @@ Hints("must_cite", <<"ISA 240">>,
                                        <<"anomaly_patterns", "red_flags">>)
      [] intent = "cycle_deep_dive" ->
            Plan(intent, 5, 7) @@ Hints("must_cite", CycleStandards(args.question),
                                        <<"cycle_specific_terms", "account_references">>)
      [] OTHER -> Plan("smalltalk", 2, 0) @@ Hints("helpful", <<>>, <<>>)

\* C22: the plan _route_and_plan returns is the tuple of its final intent,
\* with nothing left over from a block that matched earlier.
C22_PlanIsIntentTuple ==
    fn = "route_and_plan" => returns = IntentTuple(returns.intent)

-----------------------------------------------------------------------------
(* The audit trail, in SpecGate *)

\* what an audit entry has to name
AuditFields ==
    {"user_id", "tenant_id", "customer_id", "requested_scopes", "allowed_scopes", "reason"}

\* the record is an audit entry of the last call
AuditsLastCall(entry) ==
    /\ AuditFields \subseteq DOMAIN entry
    /\ entry.user_id = request.user_id
    /\ entry.customer_id = request.customer_id
    /\ entry.requested_scopes = request.requested_scopes
    /\ entry.allowed_scopes = decision.allowed_scopes

\* C23: every call of evaluate, allowed or denied, emits exactly one audit
\* entry naming the actor, tenant, customer, requested and granted scopes and
\* the reason.
C23_EveryEvaluationAudited ==
    Called => /\ Len(audit_log) = 1
              /\ AuditsLastCall(audit_log[1])

\* the part of C23 the allowing path keeps
AllowedEvaluationAudited ==
    (Called /\ decision.allowed) => /\ Len(audit_log) = 1
                                    /\ AuditsLastCall(audit_log[1])

-----------------------------------------------------------------------------
(* Administrators and the customer list, in SpecGate *)

\* the last call was made by an administrator whose quota was not used up
AdminWithinQuota ==
    /\ Called
    /\ request.user_id \in DOMAIN UserTable
    /\ UserTable[request.user_id]
    /\ decision.decision_reason /= "Rate limit exceeded"

\* C24: an administrator within quota is granted every scope of
\* {ADMIN_LAW, CUSTOMER_DOC} it requested, with or without a customer_id.
C24_AdminGetsRequestedScopes ==
    AdminWithinQuota =>
        \A i \in 1..Len(request.requested_scopes) :
            request.requested_scopes[i] \in {ADMIN_LAW, CUSTOMER_DOC} =>
                InList(request.requested_scopes[i], decision.allowed_scopes)

\* the part of C24 that holds: with a customer_id the administrator is
\* granted all it requested
AdminWithCustomerGetsScopes ==
    (AdminWithinQuota /\ Truthy(request.customer_id)) =>
        \A i \in 1..Len(request.requested_scopes) :
            request.requested_scopes[i] \in {ADMIN_LAW, CUSTOMER_DOC} =>
                InList(request.requested_scopes[i], decision.allowed_scopes)

\* C25: a returned decision lists customers only if it allows CUSTOMER_DOC.
C25_CustomersOnlyWithCustomerDoc ==
    (Called /\ decision.allowed_customer_ids /= <<>>) =>
        InList(CUSTOMER_DOC, decision.allowed_scopes)

-----------------------------------------------------------------------------
(* The file indexing worker: index_file_task jobs on one event loop *)

\* number of jobs the arq worker runs together on its event loop
NumJobs == 2

QUEUED == "QUEUED"

RUNNING == "RUNNING"

DONE == "DONE"

ERROR == "ERROR"

\* a StoredFile row as the upload leaves it
UploadedFile(scope, customer_id) ==
    [scope |-> scope, customer_id |-> customer_id, is_indexed |-> FALSE,
     index_error |-> None, index_status |-> QUEUED]

\* the rows of stored_files: two laws and one document of customer C201
StoredFileTable ==
    [f1 |-> UploadedFile(ADMIN_LAW, None),
     f2 |-> UploadedFile(ADMIN_LAW, None),
     f3 |-> UploadedFile(CUSTOMER_DOC, "C201")]

\* file_id arguments: the rows, an id without a row, a string that is no UUID
TaskFileIds == DOMAIN StoredFileTable \cup {"f9", "not-a-uuid"}

\* what the collaborators of one task do: dependencies is whether
\* ctx["qdrant"], EmbeddingProvider and FileService resolve; download, upsert
\* and lightrag are whether storage.download_file, the embedding and upsert
\* of the chunks, and create_lightrag_service return or raise; text is what
\* extract_text returns
TaskEnvironment(dependencies, download, text, upsert, lightrag) ==
    [dependencies |-> dependencies, download |-> download, text |-> text,
     upsert |-> upsert, lightrag |-> lightrag]

\* FileService.index_file: the row it commits
FileServiceIndexFile(row, env) ==
    IF env.download = "raises"
    THEN [row EXCEPT !.is_indexed = FALSE, !.index_error = "download failed"]
    ELSE IF env.text = ""
    THEN [row EXCEPT !.is_indexed = FALSE, !.index_error = "No text extracted from file"]
    ELSE IF env.upsert = "raises"
    THEN [row EXCEPT !.is_indexed = FALSE, !.index_error = "upsert failed"]
    ELSE [row EXCEPT !.is_indexed = TRUE, !.index_error = None]

\* index_file_task, lines 153-157: the LightRAG workspace of a file
WorkspaceOf(row) ==
    IF row.scope = ADMIN_LAW THEN "admin_law" ELSE "customer_" \o row.customer_id

\* a job that has not been given a task
IdleJob == [pc |-> "idle", file_id |-> None, workspace |-> None, failed |-> FALSE]

\* a job that returned
ReturnedJob(file_id, failed) ==
    [pc |-> "returned", file_id |-> file_id, workspace |-> None, failed |-> failed]

\* index_file_task from its first line to its only await, or to its return:
\* the rows it commits and the job it leaves.  The except clause sets ERROR on
\* the row and then reads datetime, a local name of the function that is
\* bound only by the import on the DONE path: UnboundLocalError, caught by
\* the inner except, and the row is never committed.
IndexFileTask(db, file_id, env) ==
    IF ~IsUuid(file_id)
    THEN [db |-> db, job |-> ReturnedJob(file_id, FALSE)]
    ELSE IF env.dependencies = "missing"
    THEN [db |-> db, job |-> ReturnedJob(file_id, TRUE)]
    ELSE IF file_id \notin DOMAIN db
    THEN [db |-> db, job |-> ReturnedJob(file_id, FALSE)]
    ELSE
    LET running == [db[file_id] EXCEPT !.index_status = RUNNING, !.index_error = None]
        indexed == FileServiceIndexFile(running, env)
    IN  IF indexed.is_indexed /\ ~Truthy(indexed.index_error)
        THEN LET done == [indexed EXCEPT !.index_status = DONE] IN
             [db |-> [db EXCEPT ![file_id] = done],
              job |-> IF env.lightrag = "raises"
                      THEN ReturnedJob(file_id, FALSE)
                      ELSE [pc |-> "ainsert", file_id |-> file_id,
                            workspace |-> WorkspaceOf(done), failed |-> FALSE]]
        ELSE [db |-> [db EXCEPT ![file_id] = indexed],
              job |-> ReturnedJob(file_id, TRUE)]

Outcomes == {"returns", "raises"}

IndexInit ==
    /\ rate_limit_cache = <<>>
    /\ now = 0
    /\ request = NoRequest
    /\ decision = NoDecision
    /\ audit_log = <<>>
    /\ WindowIdle
    /\ ConcIdle
    /\ QueryIdle
    /\ HybridIdle
    /\ UnitIdle
    /\ EmbedIdle
    /\ stored_files = StoredFileTable
    /\ jobs = [j \in 1..NumJobs |-> IdleJob]

\* the event loop runs a job from the start of index_file_task to the await
\* of lightrag.ainsert, or to the return of the task
StartTask(j) ==
    /\ jobs[j].pc = "idle"
    /\ \E file_id \in TaskFileIds, dependencies \in {"resolved", "missing"},
          download \in Outcomes, text \in {"", "text"}, upsert \in Outcomes,
          lightrag \in Outcomes :
         LET r == IndexFileTask(stored_files, file_id,
                                TaskEnvironment(dependencies, download, text,
                                                upsert, lightrag))
         IN  /\ stored_files' = r.db
             /\ jobs' = [jobs EXCEPT ![j] = r.job]
    /\ UNCHANGED <<embedVars, gateVars, windowVars, concVars, pipelineVars>>

\* LightRAGService.ainsert returns, or raises into the except clause of the
\* second-signal block: either way the task logs and returns
InsertCompletes(j) ==
    /\ jobs[j].pc = "ainsert"
    /\ jobs' = [jobs EXCEPT ![j].pc = "returned"]
    /\ UNCHANGED <<embedVars, stored_files, gateVars, windowVars, concVars, pipelineVars>>

IndexNext ==
    \E j \in 1..NumJobs : StartTask(j) \/ InsertCompletes(j)

SpecIndex == IndexInit /\ [][IndexNext]_vars

\* the workspaces with more than one insert in progress
ContendedWorkspaces ==
    {jobs[j].workspace : j \in {i \in 1..NumJobs :
        /\ jobs[i].pc = "ainsert"
        /\ \E k \in 1..NumJobs \ {i} : /\ jobs[k].pc = "ainsert"
                                       /\ jobs[k].workspace = jobs[i].workspace}}

C29_TaskEndsDoneOrError ==
    \A j \in 1..NumJobs :
        (jobs[j].pc = "returned" /\ jobs[j].file_id \in DOMAIN stored_files) =>
            /\ stored_files[jobs[j].file_id].index_status \in {DONE, ERROR}
            /\ jobs[j].failed => stored_files[jobs[j].file_id].index_status = ERROR

\* the part of C29 that holds: a file is DONE only when it is indexed without
\* an error
DoneMeansIndexed ==
    \A f \in DOMAIN stored_files :
        stored_files[f].index_status = DONE =>
            stored_files[f].is_indexed /\ ~Truthy(stored_files[f].index_error)

-----------------------------------------------------------------------------
(* EmbeddingService: providers, failover and cache *)

\* at most this many texts in one call of embed
MaxTexts == 2

\* GeminiEmbeddingProvider.vector_size
GEMINI_VECTOR_SIZE == 768

\* OpenAIEmbeddingProvider.vector_size
OPENAI_VECTOR_SIZE == 1536

\* SentenceTransformerProvider.vector_size
LOCAL_VECTOR_SIZE == 384

\* the vector_size attribute of a provider class
ProviderVectorSize(name) ==
    CASE name = "gemini" -> GEMINI_VECTOR_SIZE
      [] name = "openai" -> OPENAI_VECTOR_SIZE
      [] name = "sentence_transformers" -> LOCAL_VECTOR_SIZE

\* EmbeddingService._init_providers: the providers, in priority order
InitProviders(gemini_api_key, openai_api_key, local_model_loaded) ==
    (IF gemini_api_key THEN <<"gemini">> ELSE <<>>)
    \o (IF openai_api_key THEN <<"openai">> ELSE <<>>)
    \o (IF local_model_loaded THEN <<"sentence_transformers">> ELSE <<>>)

\* EmbeddingService.__init__: the primary provider determines vector_size
VectorSize(provider_list) == ProviderVectorSize(provider_list[1])

\* a vector a provider returns for a text: its length is the provider's size
Vector(name, text) == [provider |-> name, text |-> text, length |-> ProviderVectorSize(name)]

\* the texts of a call that are not in the cache, in order
TextsToEmbed(cache, texts) == SelectSeq(texts, LAMBDA t : t \notin DOMAIN cache)

\* the provider loop of embed: the first provider that returns one vector per
\* text; the empty list stands for the None left when every provider raised
\* or returned invalid embeddings
RECURSIVE TryProviders(_, _, _)
TryProviders(provider_list, replies, texts_to_embed) ==
    IF provider_list = <<>> THEN <<>>
    ELSE IF replies[Head(provider_list)] = "returns"
    THEN [i \in 1..Len(texts_to_embed) |-> Vector(Head(provider_list), texts_to_embed[i])]
    ELSE TryProviders(Tail(provider_list), replies, texts_to_embed)

\* _add_to_cache for the vectors of one call, in order (the cache of the
\* model never holds _cache_max_size entries, so nothing is evicted)
RECURSIVE AddToCache(_, _, _)
AddToCache(cache, texts_to_embed, embeddings) ==
    IF texts_to_embed = <<>> THEN cache
    ELSE AddToCache((Head(texts_to_embed) :> Head(embeddings)) @@ cache,
                    Tail(texts_to_embed), Tail(embeddings))

\* EmbeddingService.embed: the list it returns, or that it raised, and the
\* cache it leaves
Embed(provider_list, cache, texts, replies) ==
    LET texts_to_embed == TextsToEmbed(cache, texts)
        embeddings == TryProviders(provider_list, replies, texts_to_embed)
        filled == AddToCache(cache, texts_to_embed, embeddings)
    IN  IF texts = <<>> THEN [raised |-> FALSE, results |-> <<>>, cache |-> cache]
        ELSE IF texts_to_embed = <<>>
        THEN [raised |-> FALSE, results |-> [i \in 1..Len(texts) |-> cache[texts[i]]],
              cache |-> cache]
        ELSE IF embeddings = <<>>
        THEN [raised |-> TRUE, results |-> <<>>, cache |-> cache]
        ELSE [raised |-> FALSE, results |-> [i \in 1..Len(texts) |-> filled[texts[i]]],
              cache |-> filled]

EmbedTexts == {"a", "b"}

\* what provider.embed does in one call: returns one vector per text, raises,
\* or returns a list of another length
ProviderReplies == {"returns", "raises", "invalid"}

EmbedInit ==
    /\ rate_limit_cache = <<>>
    /\ now = 0
    /\ request = NoRequest
    /\ decision = NoDecision
    /\ audit_log = <<>>
    /\ WindowIdle
    /\ ConcIdle
    /\ QueryIdle
    /\ HybridIdle
    /\ IndexIdle
    /\ fn = "none"
    /\ args = <<>>
    /\ returns = <<>>
    /\ embedding_cache = <<>>
    /\ \E gemini_api_key \in BOOLEAN, openai_api_key \in BOOLEAN, local_model_loaded \in BOOLEAN :
         /\ InitProviders(gemini_api_key, openai_api_key, local_model_loaded) /= <<>>
         /\ providers = InitProviders(gemini_api_key, openai_api_key, local_model_loaded)

\* one call of EmbeddingService.embed
EmbedCall ==
    \E n \in 0..MaxTexts :
      \E texts \in [1..n -> EmbedTexts] :
        \E replies \in [Elems(providers) -> ProviderReplies] :
          LET r == Embed(providers, embedding_cache, texts, replies)
          IN  /\ fn' = "embed"
              /\ args' = [texts |-> texts, replies |-> replies]
              /\ returns' = r
              /\ embedding_cache' = r.cache
              /\ UNCHANGED <<providers, indexVars, gateVars, windowVars, concVars,
                             queryVars, hybridVars>>

\* EmbeddingService.clear_cache
ClearCache ==
    /\ embedding_cache /= <<>>
    /\ embedding_cache' = <<>>
    /\ fn' = "clear_cache"
    /\ args' = <<>>
    /\ returns' = <<>>
    /\ UNCHANGED <<providers, indexVars, gateVars, windowVars, concVars, queryVars, hybridVars>>

EmbedNext == EmbedCall \/ ClearCache

SpecEmbed == EmbedInit /\ [][EmbedNext]_vars

\* embed returned a list
EmbedReturned == fn = "embed" /\ ~returns.raised

\* C27: every vector embed returns, from the primary provider, from a fallback
\* provider or from the cache, has length vector_size.
C27_VectorsHaveVectorSize ==
    EmbedReturned =>
        \A i \in 1..Len(returns.results) :
            returns.results[i].length = VectorSize(providers)

\* the part of C27 that holds: one vector per text, in the order of the texts
OneVectorPerText ==
    EmbedReturned =>
        /\ Len(returns.results) = Len(args.texts)
        /\ \A i \in 1..Len(args.texts) : returns.results[i].text = args.texts[i]

-----------------------------------------------------------------------------
(* A generation that succeeds, in SpecGeneration *)

\* process_query returned after a generation call in which
\* GeminiAPI.generate_content returned its str, a non-empty text
TextGenerated == fn = "process_query" /\ args.generation.kind = "word"

\* process_query returned after a generation call that gave a mapping with
\* candidates, the shape _generate_response looks for
MappingGenerated == fn = "process_query" /\ args.generation.kind = "object"

\* C28: when the generation call succeeds with a non-empty text, process_query
\* answers with that text, not with the apology, and the grounding check has
\* been run on it.
C28_GeneratedTextReturned ==
    TextGenerated =>
        /\ returns.answer /= Apology
        /\ returns.grounding_score > 0

\* the part of C28 that holds: a mapping with candidates is answered with its
\* text and checked
MappingAnswered ==
    MappingGenerated =>
        /\ returns.answer = "answer"
        /\ returns.grounding_score > 0

-----------------------------------------------------------------------------
(* HybridFileService.index_file *)

\* at most this many chunks in the text of a file
MaxChunks == 3

\* settings.QDRANT_BATCH_SIZE
QDRANT_BATCH_SIZE == 256

\* what the collaborators of one index_file call do: found is whether the row
\* exists; download, embed, upsert and graph are whether storage.download_file,
\* embed_batch, upsert_vectors and _index_to_lightrag return or raise; text is
\* "" when extract_text finds nothing; chunks is the number of chunks
\* chunk_text cuts (0 for a text of blanks); vector_store and lightrag are
\* whether the service was built with them
IndexEnvironment(found, download, text, chunks, vector_store, embed, upsert, lightrag, graph) ==
    [found |-> found, download |-> download, text |-> text, chunks |-> chunks,
     vector_store |-> vector_store, embed |-> embed, upsert |-> upsert,
     lightrag |-> lightrag, graph |-> graph]

\* _index_to_qdrant: whether it raised, the FileChunk rows it committed and
\* the points it upserted, batch by batch
IndexToQdrant(env) ==
    LET num_batches == (env.chunks + QDRANT_BATCH_SIZE - 1) \div QDRANT_BATCH_SIZE
    IN  IF env.embed = "raises"
        THEN [raised |-> TRUE, chunk_rows |-> 0, upserted |-> 0]
        ELSE IF num_batches > 0 /\ env.upsert = "raises"
        THEN [raised |-> TRUE, chunk_rows |-> env.chunks, upserted |-> 0]
        ELSE [raised |-> FALSE, chunk_rows |-> env.chunks, upserted |-> env.chunks]

\* index_file, step 4: the qdrant_status it records
QdrantStep(env) ==
    IF ~env.vector_store
    THEN [qdrant_status |-> "skipped", chunk_rows |-> 0, upserted |-> 0]
    ELSE LET q == IndexToQdrant(env)
         IN  [qdrant_status |-> IF q.raised THEN "failed" ELSE "success",
              chunk_rows |-> q.chunk_rows, upserted |-> q.upserted]

\* index_file, step 5: the lightrag_status it records
LightragStatus(env) ==
    IF ~env.lightrag THEN "skipped"
    ELSE IF env.chunks > 0 /\ env.graph = "raises" THEN "failed"
    ELSE "success"

\* the metrics dict index_file returns, with the row it commits and the
\* vectors that reached Qdrant
IndexResult(status, qdrant_status, lightrag_status, row, upserted) ==
    [status |-> status, qdrant_status |-> qdrant_status,
     lightrag_status |-> lightrag_status, row |-> row, upserted |-> upserted]

\* HybridFileService.index_file
HybridIndexFile(row, env) ==
    IF ~env.found
    THEN IndexResult("error", None, None, row, 0)
    ELSE IF env.download = "raises"
    THEN IndexResult("error", None, None,
                     [row EXCEPT !.is_indexed = FALSE, !.index_error = "download failed",
                                 !.index_status = ERROR], 0)
    ELSE IF env.text = ""
    THEN IndexResult("started", None, None,
                     [row EXCEPT !.is_indexed = FALSE, !.index_error = "No text extracted",
                                 !.index_status = ERROR], 0)
    ELSE LET q == QdrantStep(env)
         IN  IndexResult("success", q.qdrant_status, LightragStatus(env),
                         [row EXCEPT !.is_indexed = TRUE, !.index_status = DONE],
                         q.upserted)

HybridIndexInit ==
    /\ rate_limit_cache = <<>>
    /\ now = 0
    /\ request = NoRequest
    /\ decision = NoDecision
    /\ audit_log = <<>>
    /\ WindowIdle
    /\ ConcIdle
    /\ QueryIdle
    /\ HybridIdle
    /\ IndexIdle
    /\ EmbedIdle
    /\ fn = "none"
    /\ returns = <<>>
    /\ \E found \in BOOLEAN, download \in Outcomes, chunks \in 0..MaxChunks,
          empty \in BOOLEAN, vector_store \in BOOLEAN, embed \in Outcomes,
          upsert \in Outcomes, lightrag \in BOOLEAN, graph \in Outcomes :
         /\ empty => chunks = 0
         /\ args = IndexEnvironment(found, download,
                                    IF empty THEN "" ELSE "text", chunks,
                                    vector_store, embed, upsert, lightrag, graph)

\* one call of index_file on a file as the upload left it
HybridIndexFileCall ==
    /\ fn = "none"
    /\ returns' = HybridIndexFile(UploadedFile(CUSTOMER_DOC, "C201"), args)
    /\ fn' = "index_file"
    /\ UNCHANGED <<embedVars, indexVars, gateVars, windowVars, concVars, queryVars,
                   hybridVars, args>>

HybridIndexNext == HybridIndexFileCall

SpecHybridIndex == HybridIndexInit /\ [][HybridIndexNext]_vars

\* index_file returned for a file that exists
FileIndexReturned == fn = "index_file" /\ args.found

UnreadableFileIsError ==
    (FileIndexReturned /\ (args.download = "raises" \/ args.text = "")) =>
        /\ ~returns.row.is_indexed
        /\ returns.row.index_status = ERROR

====
